---- MODULE Spec2Model ----
(***************************************************************************)
(* Model of the spectrum engine of rpi-snapclient-usb                      *)
(* (common/docker/audio-visualizer/visualizer.py), of its ingestion loop   *)
(* and WebSocket fan-out, and of the smoothing of the framebuffer display  *)
(* (common/docker/fb-display/fb_display.py).                               *)
(*                                                                         *)
(* Number representation.  The program computes in IEEE floating point;    *)
(* the model computes in exact integers with explicit rounding:            *)
(*   - a PCM sample is an integer count of HALF least-significant bits,    *)
(*     because the mono mix (L + R) * 0.5 of two int16 values is a         *)
(*     multiple of 0.5;                                                    *)
(*   - a level is an integer count of hundredths of a dB (-72.0 dB is      *)
(*     -7200); every product with a smoothing coefficient is rounded to    *)
(*     the nearest hundredth, ties to even, as a float product is rounded  *)
(*     to the nearest representable value;                                 *)
(*   - a frame field is the text Python prints for the level rounded to    *)
(*     one decimal, as a sequence of one-character strings.                *)
(* The analysis window is scaled from 4096 to 4 samples and the hop from   *)
(* 1600 to 2 so that the discrete Fourier transform is exact over the      *)
(* integers (all twiddle factors are 1, -1, i, -i); sample rate and band   *)
(* centres are scaled with it.                                             *)
(***************************************************************************)
EXTENDS Integers, Sequences, FiniteSets, TLC

\* ------------------------------------------------------------------------
\* Program constants (scaled as described above)
\* ------------------------------------------------------------------------
SAMPLE_RATE == 8
CHANNELS == 2
FFT_SIZE == 4
HOP_SIZE == 2
TARGET_FPS == 30
\* NOISE_FLOOR = -72.0 dB, in hundredths of a dB
NOISE_FLOOR == -7200
\* ATTACK_COEFF = 0.4 and DECAY_COEFF = 0.85, in percent
ATTACK_COEFF == 40
DECAY_COEFF == 85
\* fb_display.py: ATTACK_COEFF = 0.6 and DECAY_COEFF = 0.35, in percent
FB_ATTACK_COEFF == 60
FB_DECAY_COEFF == 35
BAND_MODE == "half-octave"
\* fb_display.py: the default NUM_BANDS = 19, scaled as the engine's
FB_NUM_BANDS == 2

\* ------------------------------------------------------------------------
\* Bounds of the model
\* ------------------------------------------------------------------------
\* chunks of every length 1..MaxChunk over Amps are fed to analyze_pcm
MaxChunk == 4
\* longer chunks (periodic patterns) have LongMult * FFT_SIZE (+ 1) samples
LongMult == 2
\* number of analyze_pcm calls explored
MaxTicks == 2
\* number of websocket connections ever accepted
MaxConns == 2
\* quiet sample amplitudes, in half LSB: 3 is 1.5 LSB
Amps == {-3, 0, 3}
\* a loud amplitude, in half LSB; chunks over {Loud, Loud + 1} put one band
\* more than 72 dB below the total power
Loud == 4000

\* ------------------------------------------------------------------------
\* Arithmetic helpers
\* ------------------------------------------------------------------------
Abs(x) == IF x < 0 THEN -x ELSE x

Max(a, b) == IF a >= b THEN a ELSE b

Min(a, b) == IF a <= b THEN a ELSE b

\* a / b rounded to the nearest integer, ties to even (b > 0): the rounding
\* of a floating-point operation and of numpy.round
RoundDiv(a, b) ==
    LET q == a \div b
        r == a % b
    IN  IF 2 * r < b THEN q
        ELSE IF 2 * r > b THEN q + 1
        ELSE IF q % 2 = 0 THEN q ELSE q + 1

RECURSIVE SumSeq(_)
SumSeq(s) == IF s = <<>> THEN 0 ELSE Head(s) + SumSeq(Tail(s))

\* ------------------------------------------------------------------------
\* Band table
\* ------------------------------------------------------------------------
\* generate_band_centers: the table of centre frequencies of a band mode,
\* scaled to the 3-bin spectrum of the scaled window (bins at 0, 2 and 4 Hz)
generate_band_centers(mode) ==
    IF mode = "third-octave" THEN <<2, 3, 4>> ELSE <<2, 4>>

BAND_CENTERS == generate_band_centers(BAND_MODE)

NUM_BANDS == Len(BAND_CENTERS)

\* length of the one-sided spectrum, len(np.fft.rfft(x)) = FFT_SIZE/2 + 1
SpecLen == FFT_SIZE \div 2 + 1

\* np.searchsorted(freq_bins, c / edge_ratio) and (c * edge_ratio): the first
\* bin k whose frequency k * SAMPLE_RATE / FFT_SIZE is >= the edge, SpecLen
\* when there is none.  edge_ratio is 2^(1/e) with e = 4 (half-octave) or
\* e = 6 (third-octave); f >= c / 2^(1/e) iff 2 * f^e >= c^e.
EdgeExp == IF BAND_MODE = "third-octave" THEN 6 ELSE 4

SearchLo(c) ==
    LET ok == {k \in 0..(SpecLen - 1) :
                 2 * (k * SAMPLE_RATE) ^ EdgeExp >= (c * FFT_SIZE) ^ EdgeExp}
    IN  IF ok = {} THEN SpecLen ELSE CHOOSE k \in ok : \A j \in ok : k <= j

SearchHi(c) ==
    LET ok == {k \in 0..(SpecLen - 1) :
                 (k * SAMPLE_RATE) ^ EdgeExp >= 2 * (c * FFT_SIZE) ^ EdgeExp}
    IN  IF ok = {} THEN SpecLen ELSE CHOOSE k \in ok : \A j \in ok : k <= j

compute_band_bins ==
    [b \in 1..NUM_BANDS |->
        LET lo == SearchLo(BAND_CENTERS[b])
            hi == Max(SearchHi(BAND_CENTERS[b]), lo + 1)
        IN  <<lo, hi>>]

BAND_BINS == compute_band_bins

\* np.hanning(FFT_SIZE) in quarters: [0, 0.75, 0.75, 0]
WINDOW == <<0, 3, 3, 0>>

VARIABLES
    prev_db,      \* smoothing state, one level per band (hundredths of dB)
    audio_ring,   \* analysis window, FFT_SIZE samples (half LSB)
    result,       \* the frame returned by the last analyze_pcm call
    path,         \* which path the last call took: "none", "silence", "fft"
    band_db,      \* the raw levels of the last FFT-path call
    fed,          \* the last FFT_SIZE samples fed since start-up or reset
    chunk_n,      \* len(new_samples) of the last call
    chunk_sq,     \* sum of the squares of new_samples of the last call
    ticks         \* number of analyze_pcm calls so far

engine_vars ==
    <<prev_db, audio_ring, result, path, band_db, fed, chunk_n, chunk_sq, ticks>>

\* One band followed through a step of the raw level (up, then back down)
VARIABLES
    sm_lo,        \* the level before the step and after the step back
    sm_hi,        \* the level during the step
    sm_raw,       \* this tick's raw level of the band
    sm_disp,      \* the engine's displayed level of the band (prev_db[i])
    sm_old,       \* sm_disp before the last tick
    sm_fb,        \* the display's level of the band (display_bands[i])
    sm_fb_old,    \* sm_fb before the last tick
    sm_phase,     \* "idle", "attack", "decay", "done"
    sm_up,        \* ticks the engine took to close 90% of the step up
    sm_down       \* ticks the engine took to close 90% of the step down

smooth_vars ==
    <<sm_lo, sm_hi, sm_raw, sm_disp, sm_old, sm_fb, sm_fb_old, sm_phase,
      sm_up, sm_down>>

\* The ingestion loop (read_loopback_and_broadcast), the fan-out (broadcast)
\* and the consumers' connections (websocket_handler)
VARIABLES
    pc,           \* where the ingestion task is: "open", "read", "bcast",
                  \* "send", "sleep", "backoff"
    handle,       \* the ALSA capture handle: "closed" or "open"
    clients,      \* the module's set of connected websockets
    conn,         \* per connection: "fresh", "open", "closing", "gone"
    msg,          \* the frame handed to the current or last broadcast
    msg_id,       \* the tick of the chunk msg was computed from, 0 for zero_msg
    after,        \* what follows the broadcast: "loop" or "break"
    it_left,      \* the elements the set iterator of broadcast has yet to yield
    it_size,      \* the size of clients when the iterator was created
    cur,          \* the client of the send in progress, 0 when none
    dead,         \* the local set dead of the current or last broadcast
    got,          \* the clients that accepted msg in that broadcast
    bc_start,     \* clients when that broadcast began
    bc_out,       \* "none", "running", "returned" or "raised"
    handed,       \* the ticks whose frames were handed to broadcast, in order
    recv          \* per connection, the ticks of the frames it accepted

loop_vars ==
    <<pc, handle, clients, conn, msg, msg_id, after, it_left, it_size, cur,
      dead, got, bc_start, bc_out, handed, recv>>

\* The module's start-up with a configuration (BAND_MODE, SAMPLE_RATE read
\* from the environment): the band table being built
VARIABLES
    start   \* the start-up being followed: "off", or a record of
            \*   cfg_mode    BAND_MODE
            \*   cfg_rate    SAMPLE_RATE in Hz
            \*   bt_pc       "centers", "bins", "ready"
            \*   bt_centers  BAND_CENTERS, in half Hz
            \*   bt_edges    the list edges of compute_band_bins, built band by band

band_vars == <<start>>

cfg_mode == start.cfg_mode

cfg_rate == start.cfg_rate

bt_pc == start.bt_pc

bt_centers == start.bt_centers

bt_edges == start.bt_edges

\* The conversion of one window to band levels with a given band table
VARIABLES
    conv    \* the conversion being followed: "off", or a record of
            \*   lv_pc     "in", "power", "out"
            \*   lv_ring   the window
            \*   lv_bins   the band table, one <<lo, hi>> per band
            \*   lv_power  band_power
            \*   lv_db     band_db

level_vars == <<conv>>

lv_pc == conv.lv_pc

lv_ring == conv.lv_ring

lv_bins == conv.lv_bins

lv_power == conv.lv_power

lv_db == conv.lv_db

\* A second engine fed the same chunks at another gain
VARIABLES
    pair    \* the comparison being followed: "off", or a record of
            \*   g_src  "sine" or "any": what the two engines are fed
            \*   gain1  the gain of the first engine (prev_db, audio_ring, result)
            \*   gain2  the gain of the second engine
            \*   twin   the second engine: its prev_db, audio_ring and result

gain_vars == <<pair>>

g_src == pair.g_src

gain1 == pair.gain1

gain2 == pair.gain2

twin == pair.twin

\* The framebuffer display (fb_display.py): the band structures, the reader
\* task spectrum_ws_reader on the event loop and render_spectrum on a worker
\* thread
VARIABLES
    disp    \* the display process: "off", or a record of
            \*   fb_num         NUM_BANDS of fb_display.py
            \*   bands          the array bands: [id |-> object, v |-> elements]
            \*   display_bands  the array display_bands
            \*   peak_bands     the array peak_bands
            \*   peak_time      the array peak_time
            \*   colors         the number of entries of BAR_COLORS_FB and PEAK_COLORS_FB
            \*   layout         the band count the layout was computed for
            \*   next_id        the number of arrays allocated so far
            \*   rd_pc          the reader: "wait" or the statement of resize_bands it is at
            \*   rd_vals        values of the message being handled
            \*   rs_before      the band structures when resize_bands was last called
            \*   rn_pc          the render thread: "idle" or the statement it is at
            \*   rn_seen        the lengths the render in progress has observed
            \*   rn_ref         the display_bands object loaded by the += of the render
            \*   bg             spectrum_bg_fb: "set" or "none"
            \*   fb_msgs        messages received so far
            \*   fb_renders     renders started so far

disp_vars == <<disp>>

fb_num == disp.fb_num

bands == disp.bands

display_bands == disp.display_bands

peak_bands == disp.peak_bands

peak_time == disp.peak_time

colors == disp.colors

layout == disp.layout

next_id == disp.next_id

rd_pc == disp.rd_pc

rd_vals == disp.rd_vals

rs_before == disp.rs_before

rn_pc == disp.rn_pc

rn_seen == disp.rn_seen

rn_ref == disp.rn_ref

bg == disp.bg

fb_msgs == disp.fb_msgs

fb_renders == disp.fb_renders

\* The metadata service (metadata-service.py): the one operation of it that
\* is being followed
VARIABLES
    meta    \* "off", or a record of the state of the operation followed

meta_vars == <<meta>>

aux_vars == <<band_vars, level_vars, gain_vars, disp_vars, meta_vars>>

vars == <<engine_vars, smooth_vars, loop_vars, aux_vars>>

\* ------------------------------------------------------------------------
\* analyze_pcm, step by step
\* ------------------------------------------------------------------------
\* the silence test taken over the ring with the chunk appended in place of
\* the new samples alone
IsSilentRing(new_samples) ==
    LET n == Len(new_samples)
        w == [i \in 1..FFT_SIZE |->
                IF n >= FFT_SIZE THEN new_samples[n - FFT_SIZE + i]
                ELSE IF i > FFT_SIZE - n THEN new_samples[i - (FFT_SIZE - n)]
                ELSE audio_ring[i + n]]
    IN  SumSeq([i \in 1..FFT_SIZE |-> w[i] * w[i]]) < 4 * FFT_SIZE

\* rms_new < 1.0 with rms_new = sqrt(mean(new_samples ** 2)): in half LSB the
\* mean square is below 4, i.e. the sum of squares is below 4 * n
IsSilent(new_samples) ==
    SumSeq([i \in 1..Len(new_samples) |-> new_samples[i] * new_samples[i]])
        < 4 * Len(new_samples)

\* np.roll(audio_ring, n) in place of np.roll(audio_ring, -n)
RollRight(ring, n) ==
    [i \in 1..FFT_SIZE |-> ring[((i - 1 - n) % FFT_SIZE) + 1]]

\* np.roll(audio_ring, -n): element i of the result is element i + n (cyclic)
Roll(ring, n) ==
    [i \in 1..FFT_SIZE |-> ring[((i - 1 + n) % FFT_SIZE) + 1]]

\* the ring update of lines 137-142
UpdateRing(ring, new_samples) ==
    LET n == Len(new_samples)
    IN  IF n >= FFT_SIZE
        THEN [i \in 1..FFT_SIZE |-> new_samples[n - FFT_SIZE + i]]
        ELSE LET rolled == Roll(ring, n)
             IN  [i \in 1..FFT_SIZE |->
                    IF i > FFT_SIZE - n
                    THEN new_samples[i - (FFT_SIZE - n)]
                    ELSE rolled[i]]

\* cos and sin of k quarter turns: the twiddle factors of a 4-point DFT
CosQ(k) == LET m == k % 4 IN IF m = 0 THEN 1 ELSE IF m = 2 THEN -1 ELSE 0

SinQ(k) == LET m == k % 4 IN IF m = 1 THEN 1 ELSE IF m = 3 THEN -1 ELSE 0

\* spectrum = np.abs(np.fft.rfft(audio_ring / 32768 * WINDOW)) ** 2 at bin k,
\* without the positive factors common to all bins (1/32768^2,
\* WINDOW_POWER_CORR, 1/FFT_SIZE^2 and the units of samples and window), which
\* cancel in the normalisation by the total power
SpectrumBin(ring, k) ==
    LET re == SumSeq([i \in 1..FFT_SIZE |->
                        ring[i] * WINDOW[i] * CosQ(k * (i - 1))])
        im == 0 - SumSeq([i \in 1..FFT_SIZE |->
                        ring[i] * WINDOW[i] * SinQ(k * (i - 1))])
    IN  re * re + im * im

\* the power spectrum, bins 0 .. SpecLen - 1 at indices 1 .. SpecLen
Spectrum(ring) == [k \in 1..SpecLen |-> SpectrumBin(ring, k - 1)]

\* cumsum = np.concatenate(([0.0], np.cumsum(spectrum))): cumsum[j] is the
\* sum of the bins below j
CumSum(spectrum, j) == SumSeq(SubSeq(spectrum, 1, j))

\* band_power = np.maximum(cumsum[hi] - cumsum[edges], 0.0), with both
\* indices clipped to the spectrum length, for the band table bins
BandPowerOf(spectrum, bins) ==
    [b \in 1..Len(bins) |->
        LET lo == Min(bins[b][1], Len(spectrum))
            hi == Min(bins[b][2], Len(spectrum))
        IN  Max(CumSum(spectrum, hi) - CumSum(spectrum, lo), 0)]

BandPower(spectrum) == BandPowerOf(spectrum, BAND_BINS)

\* 10 * log10(p / t) for 0 < p <= t, in hundredths of a dB: 3.01 dB per
\* halving, linear inside an octave.  Monotone in p / t and 0 at p = t.
RECURSIVE Octaves(_, _)
Octaves(p, t) == IF 2 * p <= t THEN 1 + Octaves(2 * p, t) ELSE 0

TenLog10(p, t) ==
    LET k == Octaves(p, t)
        base == p * 2 ^ k
        d == t - base
        lin == IF d < 7000000
               THEN (301 * d) \div base
               ELSE (301 * (d \div 1024)) \div (base \div 1024)
    IN  0 - (301 * k + lin)

\* the conversion to dB without np.maximum(..., NOISE_FLOOR)
BandDbNoClamp(p, t) ==
    IF p > 0 THEN TenLog10(p, IF t > 0 THEN t ELSE 1) ELSE NOISE_FLOOR

\* band_db (lines 170-183) of one band of power p, the bands' total power
\* being t: normalise by the total power when it exceeds 1e-30 (every
\* non-zero power of the model is far above 1e-30, so the test is t > 0),
\* convert to dB and clamp to the noise floor; a band without power gets the
\* noise floor
BandDb(p, t) ==
    LET norm_num == p
        norm_den == IF t > 0 THEN t ELSE 1
    IN  IF norm_num > 0
        THEN Max(TenLog10(norm_num, norm_den), NOISE_FLOOR)
        ELSE NOISE_FLOOR

\* the conversion with 0.0 as the level of a band without power
LevelsOfZeroFill(power) ==
    [b \in 1..Len(power) |->
        IF power[b] > 0 THEN BandDb(power[b], SumSeq(power)) ELSE 0]

\* band_db of all bands from band_power (lines 167-183)
LevelsOf(power) ==
    [b \in 1..Len(power) |-> BandDb(power[b], SumSeq(power))]

\* the reference power of the absolute mode, above every power of the model
AbsRef == 2 ^ 30

\* the raw levels in absolute mode: 10 * log10(band_power) against a fixed
\* reference, without the division by the total power
RawLevelsAbsolute(ring) ==
    LET power == BandPower(Spectrum(ring))
    IN  [b \in 1..Len(power) |-> BandDb(power[b], AbsRef)]

\* the raw levels of all bands for a ring (lines 144-183)
RawLevels(ring) == LevelsOf(BandPower(Spectrum(ring)))

\* the smoothing with the attack mask inverted (band_db < prev_db)
SmoothMaskInverted(prev, raw) ==
    LET alpha == IF raw < prev THEN 100 - ATTACK_COEFF ELSE 100 - DECAY_COEFF
    IN  prev + RoundDiv((raw - prev) * alpha, 100)

\* the smoothing with the coefficients used as rates (alpha = ATTACK_COEFF,
\* DECAY_COEFF in place of 1 - ATTACK_COEFF, 1 - DECAY_COEFF)
SmoothCoeffAsRate(prev, raw) ==
    LET alpha == IF raw > prev THEN ATTACK_COEFF ELSE DECAY_COEFF
    IN  prev + RoundDiv((raw - prev) * alpha, 100)

\* the asymmetric smoothing of lines 186-188
Smooth(prev, raw) ==
    LET alpha == IF raw > prev THEN 100 - ATTACK_COEFF ELSE 100 - DECAY_COEFF
    IN  prev + RoundDiv((raw - prev) * alpha, 100)

\* the asymmetric smoothing of the display, fb_display.py lines 638-641
FbSmooth(display, band) ==
    LET alpha == IF band > display THEN FB_ATTACK_COEFF ELSE FB_DECAY_COEFF
    IN  display + RoundDiv((band - display) * alpha, 100)

\* ------------------------------------------------------------------------
\* Output encoding and its inverse
\* ------------------------------------------------------------------------
DigitChars == <<"0", "1", "2", "3", "4", "5", "6", "7", "8", "9">>

RECURSIVE Digits(_)
Digits(n) ==
    IF n < 10 THEN <<DigitChars[n + 1]>>
    ELSE Digits(n \div 10) \o <<DigitChars[(n % 10) + 1]>>

\* str(v) without the rounding to one decimal: both decimals are printed
StrUnrounded(v) ==
    LET t == Abs(v)
    IN  (IF v < 0 THEN <<"-">> ELSE <<>>)
            \o Digits(t \div 100) \o <<".">>
            \o Digits((t \div 10) % 10) \o Digits(t % 10)

\* str(round(v, 1)) and str(np.round(v, 1)): the level v rounded to one
\* decimal (half to even), printed as [-]digits.digit; the sign of v is kept
\* when v rounds to zero ("-0.0")
StrRound1(v) ==
    LET t == Abs(RoundDiv(v, 10))
    IN  (IF v < 0 THEN <<"-">> ELSE <<>>)
            \o Digits(t \div 10) \o <<".">> \o Digits(t % 10)

\* ";".join(fields)
RECURSIVE Join(_)
Join(fields) ==
    IF fields = <<>> THEN <<>>
    ELSE IF Len(fields) = 1 THEN fields[1]
    ELSE fields[1] \o <<";">> \o Join(Tail(fields))

\* a join that loses the last band (range(NUM_BANDS - 1))
FormatFrameShort(levels) ==
    Join([b \in 1..(Len(levels) - 1) |-> StrRound1(levels[b])])

\* the frame of a vector of levels (lines 134 and 191-192)
FormatFrame(levels) ==
    Join([b \in 1..Len(levels) |-> StrRound1(levels[b])])

\* message.split(";") of the consumer (fb_display.py line 711)
RECURSIVE SplitAcc(_, _, _)
SplitAcc(text, field, acc) ==
    IF text = <<>> THEN Append(acc, field)
    ELSE IF Head(text) = ";"
         THEN SplitAcc(Tail(text), <<>>, Append(acc, field))
         ELSE SplitAcc(Tail(text), Append(field, Head(text)), acc)

Split(text) == SplitAcc(text, <<>>, <<>>)

IsDigit(c) == \E d \in 1..10 : DigitChars[d] = c

DigitVal(c) == (CHOOSE d \in 1..10 : DigitChars[d] = c) - 1

RECURSIVE NatOf(_)
NatOf(ds) ==
    IF ds = <<>> THEN 0
    ELSE 10 * NatOf(SubSeq(ds, 1, Len(ds) - 1)) + DigitVal(ds[Len(ds)])

\* the unsigned part of a field
Unsigned(f) == IF f # <<>> /\ Head(f) = "-" THEN Tail(f) ELSE f

\* a field is a decimal number with one digit after the point: [-]d+.d
IsFloatText(f) ==
    LET u == Unsigned(f)
    IN  /\ Len(u) >= 3
        /\ u[Len(u) - 1] = "."
        /\ IsDigit(u[Len(u)])
        /\ \A i \in 1..(Len(u) - 2) : IsDigit(u[i])

\* float(f) of such a field, in tenths
ParseTenths(f) ==
    LET u == Unsigned(f)
        mag == 10 * NatOf(SubSeq(u, 1, Len(u) - 2)) + DigitVal(u[Len(u)])
    IN  IF Head(f) = "-" THEN 0 - mag ELSE mag

\* ------------------------------------------------------------------------
\* The engine called directly (as the unit tests call it)
\* ------------------------------------------------------------------------
Floor == [b \in 1..NUM_BANDS |-> NOISE_FLOOR]

Zeros == [i \in 1..FFT_SIZE |-> 0]

\* the last FFT_SIZE elements of a sequence of at least FFT_SIZE elements
LastW(s) == SubSeq(s, Len(s) - FFT_SIZE + 1, Len(s))

ShortChunks == UNION {[1..n -> Amps] : n \in 1..MaxChunk}

LongChunks ==
    {[i \in 1..len |-> pat[((i - 1) % 2) + 1]] :
        pat \in [1..2 -> Amps],
        len \in {LongMult * FFT_SIZE, LongMult * FFT_SIZE + 1}}

LoudChunks == UNION {[1..n -> {Loud, Loud + 1}] : n \in 1..2}

Chunks == ShortChunks \cup LongChunks \cup LoudChunks

\* the smoothing variables when no step is followed
SmoothIdle ==
    /\ sm_lo = NOISE_FLOOR
    /\ sm_hi = NOISE_FLOOR
    /\ sm_raw = NOISE_FLOOR
    /\ sm_disp = NOISE_FLOOR
    /\ sm_old = NOISE_FLOOR
    /\ sm_fb = NOISE_FLOOR
    /\ sm_fb_old = NOISE_FLOOR
    /\ sm_phase = "idle"
    /\ sm_up = 0
    /\ sm_down = 0

\* the engine after import (lines 83-85)
EngineStart ==
    /\ prev_db = Floor
    /\ audio_ring = Zeros
    /\ result = <<>>
    /\ path = "none"
    /\ band_db = Floor
    /\ fed = Zeros
    /\ chunk_n = 0
    /\ chunk_sq = 0
    /\ ticks = 0

\* the connections and the loop before main() runs
Conns == 1..MaxConns

LoopIdle ==
    /\ pc = "open"
    /\ handle = "closed"
    /\ clients = {}
    /\ conn = [c \in Conns |-> "fresh"]
    /\ msg = <<>>
    /\ msg_id = 0
    /\ after = "loop"
    /\ it_left = {}
    /\ it_size = 0
    /\ cur = 0
    /\ dead = {}
    /\ got = {}
    /\ bc_start = {}
    /\ bc_out = "none"
    /\ handed = <<>>
    /\ recv = [c \in Conns |-> <<>>]

\* no start-up with another configuration is followed
BandIdle == start = "off"

\* no single conversion is followed
LevelIdle == conv = "off"

\* the second engine after import (lines 83-85)
TwinStart == [prev_db |-> Floor, audio_ring |-> Zeros, result |-> <<>>]

GainIdle == pair = "off"

\* np.full(n, fill) as a fresh object
NewArray(id, n, fill) == [id |-> id, v |-> [i \in 1..n |-> fill]]

\* the band structures of the display, as one value
Structs ==
    [num |-> fb_num, bands |-> bands, display_bands |-> display_bands,
     peak_bands |-> peak_bands, peak_time |-> peak_time, colors |-> colors,
     layout |-> layout]

\* the display with fb_num bands, its four arrays filled with b, d, p and t,
\* the reader waiting for a message and no render running
DispWith(n, b, d, p, t, back) ==
    LET st == [num |-> n, bands |-> NewArray(1, n, b),
               display_bands |-> NewArray(2, n, d),
               peak_bands |-> NewArray(3, n, p),
               peak_time |-> NewArray(4, n, t), colors |-> n, layout |-> n]
    IN  [fb_num |-> n, bands |-> st.bands, display_bands |-> st.display_bands,
         peak_bands |-> st.peak_bands, peak_time |-> st.peak_time,
         colors |-> n, layout |-> n, next_id |-> 4, rd_pc |-> "wait",
         rd_vals |-> <<>>, rs_before |-> st, rn_pc |-> "idle", rn_seen |-> {},
         rn_ref |-> st.display_bands, bg |-> back, fb_msgs |-> 0,
         fb_renders |-> 0]

\* the display after import (fb_display.py lines 50-59) and the set-up of
\* main() (lines 832-835), with the spectrum background extracted from the
\* first base frame
DispStart == disp = DispWith(FB_NUM_BANDS, NOISE_FLOOR, NOISE_FLOOR, 0, 0, "set")

\* the display process is not started
DispOff == disp = "off"

\* no operation of the metadata service is followed
MetaOff == meta = "off"

AuxIdle == BandIdle /\ LevelIdle /\ GainIdle /\ DispOff /\ MetaOff

InitEngine == EngineStart /\ SmoothIdle /\ LoopIdle /\ AuxIdle

\* sum of the squares of a chunk
SumSq(chunk) == SumSeq([i \in 1..Len(chunk) |-> chunk[i] * chunk[i]])

\* analyze_pcm(new_samples), lines 120-192
analyze_pcm(new_samples) ==
    /\ chunk_n' = Len(new_samples)
    /\ chunk_sq' = SumSq(new_samples)
    /\ ticks' = ticks + 1
    /\ IF IsSilent(new_samples)
       THEN /\ audio_ring' = Zeros
            /\ prev_db' = Floor
            /\ result' = FormatFrame(prev_db')
            /\ path' = "silence"
            /\ fed' = Zeros
            /\ UNCHANGED band_db
       ELSE /\ audio_ring' = UpdateRing(audio_ring, new_samples)
            /\ band_db' = RawLevels(audio_ring')
            /\ prev_db' =
                 [b \in 1..NUM_BANDS |-> Smooth(prev_db[b], band_db'[b])]
            /\ result' = FormatFrame(prev_db')
            /\ path' = "fft"
            /\ fed' = LastW(fed \o new_samples)

AnalyzeCall ==
    /\ ticks < MaxTicks
    /\ \E c \in Chunks : analyze_pcm(c)
    /\ UNCHANGED <<smooth_vars, loop_vars>>
    /\ UNCHANGED aux_vars

NextEngine == AnalyzeCall

SpecEngine == InitEngine /\ [][NextEngine]_vars

\* ------------------------------------------------------------------------
\* The smoothing rule followed through a step response (SpecSmooth)
\* ------------------------------------------------------------------------
\* levels between which the raw level steps
StepLevels == {NOISE_FLOOR, -4800, -2400, -1200, 0}

InitSmooth ==
    /\ EngineStart
    /\ LoopIdle
    /\ AuxIdle
    /\ sm_lo \in StepLevels
    /\ sm_hi \in StepLevels
    /\ sm_lo < sm_hi
    /\ sm_raw = sm_hi
    /\ sm_disp = sm_lo
    /\ sm_old = sm_lo
    /\ sm_fb = sm_lo
    /\ sm_fb_old = sm_lo
    /\ sm_phase = "attack"
    /\ sm_up = 0
    /\ sm_down = 0

\* both displayed levels have stopped moving towards the raw level
Settled ==
    /\ Smooth(sm_disp, sm_raw) = sm_disp
    /\ FbSmooth(sm_fb, sm_raw) = sm_fb

\* 90% of the step up, resp. of the step back down, is closed
Within90Up == 10 * (sm_hi - sm_disp) <= sm_hi - sm_lo

Within90Down == 10 * (sm_disp - sm_lo) <= sm_hi - sm_lo

\* one tick: lines 186-188 of visualizer.py and 639-641 of fb_display.py
SmoothTick ==
    /\ sm_phase \in {"attack", "decay"}
    /\ ~Settled
    /\ sm_old' = sm_disp
    /\ sm_fb_old' = sm_fb
    /\ sm_disp' = Smooth(sm_disp, sm_raw)
    /\ sm_fb' = FbSmooth(sm_fb, sm_raw)
    /\ sm_up' = IF sm_phase = "attack" /\ ~Within90Up THEN sm_up + 1 ELSE sm_up
    /\ sm_down' =
         IF sm_phase = "decay" /\ ~Within90Down THEN sm_down + 1 ELSE sm_down
    /\ UNCHANGED <<sm_lo, sm_hi, sm_raw, sm_phase, engine_vars, loop_vars>>
    /\ UNCHANGED aux_vars

\* the raw level steps back down by the same magnitude
StepDown ==
    /\ sm_phase = "attack"
    /\ Settled
    /\ sm_raw' = sm_lo
    /\ sm_phase' = "decay"
    /\ sm_old' = sm_disp
    /\ sm_fb_old' = sm_fb
    /\ UNCHANGED <<sm_lo, sm_hi, sm_disp, sm_fb, sm_up, sm_down, engine_vars,
                   loop_vars>>
    /\ UNCHANGED aux_vars

StepEnd ==
    /\ sm_phase = "decay"
    /\ Settled
    /\ sm_phase' = "done"
    /\ UNCHANGED <<sm_lo, sm_hi, sm_raw, sm_disp, sm_old, sm_fb, sm_fb_old,
                   sm_up, sm_down, engine_vars,
                   loop_vars>>
    /\ UNCHANGED aux_vars

NextSmooth == SmoothTick \/ StepDown \/ StepEnd

SpecSmooth == InitSmooth /\ [][NextSmooth]_vars

\* new lies between old and raw (inclusive)
Between(old, new, raw) ==
    \/ old <= new /\ new <= raw
    \/ raw <= new /\ new <= old

\* new - old is pct percent of raw - old, to the rounding of one hundredth
MovesBy(old, new, raw, pct) ==
    Abs(100 * (new - old) - pct * (raw - old)) <= 50

\* C5: on every tick the displayed level moves by (raw - displayed) *
\* attackRate when raw > displayed and by (raw - displayed) * decayRate
\* otherwise, so it lies between the old displayed level and the raw level
\* and never overshoots; in the engine (rates 1 - ATTACK_COEFF and
\* 1 - DECAY_COEFF) and in the display (rates ATTACK_COEFF and DECAY_COEFF).
C5_SmoothingRule ==
    (sm_phase # "idle" /\ (sm_disp # sm_old \/ sm_fb # sm_fb_old)) =>
        /\ Between(sm_old, sm_disp, sm_raw)
        /\ Between(sm_fb_old, sm_fb, sm_raw)
        /\ IF sm_raw > sm_old
           THEN MovesBy(sm_old, sm_disp, sm_raw, 100 - ATTACK_COEFF)
           ELSE MovesBy(sm_old, sm_disp, sm_raw, 100 - DECAY_COEFF)
        /\ IF sm_raw > sm_fb_old
           THEN MovesBy(sm_fb_old, sm_fb, sm_raw, FB_ATTACK_COEFF)
           ELSE MovesBy(sm_fb_old, sm_fb, sm_raw, FB_DECAY_COEFF)

\* C5 witness: a decaying tick after which both displayed levels lie
\* strictly between their old value and the raw level.
C5_Witness ==
    /\ sm_phase = "decay"
    /\ sm_raw < sm_disp /\ sm_disp < sm_old
    /\ sm_raw < sm_fb /\ sm_fb < sm_fb_old

\* C6: the attack rate is larger than the decay rate: after a step up of the
\* raw level the displayed level closes 90% of the step in strictly fewer
\* ticks than it takes to close 90% of the equal step back down.
C6_AttackFasterThanDecay ==
    /\ 100 - ATTACK_COEFF > 100 - DECAY_COEFF
    /\ sm_phase = "done" => sm_up < sm_down

\* C6 witness: a full-scale step (72 dB) followed up and back down.
C6_Witness ==
    /\ sm_phase = "done"
    /\ sm_hi - sm_lo = 0 - NOISE_FLOOR
    /\ sm_up >= 2
    /\ sm_up < sm_down

\* ------------------------------------------------------------------------
\* Properties of the engine (SpecEngine)
\* ------------------------------------------------------------------------
\* the fields of the last returned frame, as the consumer splits them
Fields == Split(result)

\* C1: after any sequence of analyze_pcm calls every element of prev_db and
\* every field of every returned frame is >= NOISE_FLOOR (-72.0).
C1_FloorClamp ==
    /\ \A b \in 1..NUM_BANDS : prev_db[b] >= NOISE_FLOOR
    /\ path # "none" =>
          \A i \in 1..Len(Fields) : 10 * ParseTenths(Fields[i]) >= NOISE_FLOOR

\* C1 witness: an FFT-path call in which a band has power, lies more than
\* 72 dB below the total power, and is reported at the noise floor.
C1_Witness ==
    /\ path = "fft"
    /\ \E b \in 1..NUM_BANDS :
          LET power == BandPower(Spectrum(audio_ring))
          IN  /\ power[b] > 0
              /\ TenLog10(power[b], SumSeq(power)) < NOISE_FLOOR
              /\ prev_db[b] = NOISE_FLOOR
              /\ 10 * ParseTenths(Fields[b]) = NOISE_FLOOR

\* C2: from any reachable engine state, analyze_pcm with a chunk of any
\* length from 1 sample to several multiples of FFT_SIZE returns a frame of
\* exactly NUM_BANDS ';'-separated fields, on the silence path and on the
\* FFT path.
C2_FieldCount == path # "none" => Len(Fields) = NUM_BANDS

\* C2 witness: an FFT-path call with a chunk longer than LongMult windows,
\* after a call on the silence path, returning NUM_BANDS fields.
C2_Witness ==
    /\ path = "fft"
    /\ chunk_n > LongMult * FFT_SIZE
    /\ ticks = 2
    /\ Len(Fields) = NUM_BANDS

\* C3: a chunk whose RMS, taken over the new chunk only, is below 1.0 takes
\* the silence path (no FFT), returns NUM_BANDS fields all at the noise
\* floor, and leaves audio_ring all zeros and prev_db all at NOISE_FLOOR,
\* whatever they held before; a chunk with RMS >= 1.0 takes the FFT path.
C3_SilenceGate ==
    path # "none" =>
        /\ (path = "silence") <=> (chunk_sq < 4 * chunk_n)
        /\ path = "silence" =>
              /\ audio_ring = Zeros
              /\ prev_db = Floor
              /\ Len(Fields) = NUM_BANDS
              /\ \A i \in 1..Len(Fields) : Fields[i] = <<"-", "7", "2", ".", "0">>

\* C3 witness: a silent chunk that is not all zero (RMS 0.75 LSB) arrives
\* when the previous call had left the ring and the smoothing state
\* non-trivial, and resets them.
C3_Witness ==
    /\ path = "silence"
    /\ ticks = 2
    /\ chunk_sq > 0
    /\ \E b \in 1..NUM_BANDS : band_db[b] > NOISE_FLOOR
    /\ audio_ring = Zeros
    /\ prev_db = Floor

\* C4: after any sequence of non-silent chunks since start-up or the last
\* silence reset, audio_ring has length FFT_SIZE and holds, in time order,
\* the most recent FFT_SIZE samples of the concatenated chunks, zero-filled
\* at the front.
C4_RingIsRecent ==
    /\ Len(audio_ring) = FFT_SIZE
    /\ audio_ring = fed

\* C4 witness: a chunk shorter than the window has shifted a sample of the
\* previous chunk towards the front and filled the tail.
C4_Witness ==
    /\ path = "fft"
    /\ ticks = 2
    /\ chunk_n = 1
    /\ audio_ring[FFT_SIZE - 1] # 0
    /\ audio_ring[FFT_SIZE] # audio_ring[FFT_SIZE - 1]
    /\ audio_ring = fed

\* ------------------------------------------------------------------------
\* The ingestion loop and the fan-out (Spec)
\* ------------------------------------------------------------------------
\* stereo frames <<left, right>> of int16 samples the capture device yields
PcmFrames == {<<0, 0>>, <<3, 3>>}

\* what a successful alsa_read_frames returns: 1 .. HOP_SIZE frames (a
\* steady signal within one read)
ReadData == {[i \in 1..n |-> f] : n \in 1..HOP_SIZE, f \in PcmFrames}

\* mono = (samples[0::2] + samples[1::2]) * 0.5 (line 334), in half LSB
DownMix(data) == [i \in 1..Len(data) |-> data[i][1] + data[i][2]]

\* zero_msg (lines 323-325): str(NOISE_FLOOR) for every band
ZeroMsg == Join([b \in 1..NUM_BANDS |-> StrRound1(NOISE_FLOOR)])

\* a frame is broadcast only when it is not a floor frame
NotFloorFrame(frame) == Len(frame) > 0 /\ frame # ZeroMsg

\* "if result:" (line 339): the frame is a non-empty string
ShouldBroadcast(frame) == Len(frame) > 0

\* the event loop can run other tasks: the ingestion task is suspended in an
\* await (executor read, send, sleep)
AtAwait == pc \in {"read", "send", "sleep", "backoff"}

\* await broadcast(data): dead = set() and the for statement creates the
\* iterator over clients (lines 197-200); `aft` is what the caller does when
\* broadcast returns
CallBroadcast(data, id, aft) ==
    /\ msg' = data
    /\ msg_id' = id
    /\ after' = aft
    /\ dead' = {}
    /\ got' = {}
    /\ cur' = 0
    /\ bc_start' = clients
    /\ bc_out' = "running"
    /\ it_left' = clients
    /\ it_size' = Cardinality(clients)
    /\ pc' = "bcast"
    /\ UNCHANGED <<handle, clients, conn, recv>>

\* broadcast is over and its caller moves on: the frame of broadcast (data,
\* dead, the iterator) is gone
BroadcastGone ==
    /\ msg' = <<>>
    /\ msg_id' = 0
    /\ after' = "loop"
    /\ dead' = {}
    /\ got' = {}
    /\ bc_start' = {}
    /\ bc_out' = "none"
    /\ it_size' = 0
    /\ UNCHANGED <<it_left, cur>>

\* open_alsa_capture() succeeds (line 309)
OpenOk ==
    /\ pc = "open"
    /\ handle' = "open"
    /\ pc' = "read"
    /\ BroadcastGone
    /\ UNCHANGED <<clients, conn, handed, recv>>
    /\ UNCHANGED <<engine_vars, smooth_vars>>
    /\ UNCHANGED aux_vars

\* open_alsa_capture() raises; the outer except sleeps 2 s (lines 349-351)
OpenFail ==
    /\ pc = "open"
    /\ pc' = "backoff"
    /\ BroadcastGone
    /\ UNCHANGED <<handle, clients, conn, handed, recv>>
    /\ UNCHANGED <<engine_vars, smooth_vars>>
    /\ UNCHANGED aux_vars

\* the read returns data: down-mix, analyze_pcm, broadcast (lines 316-340)
ReadOk ==
    /\ pc = "read"
    /\ ticks < MaxTicks
    /\ \E data \in ReadData : analyze_pcm(DownMix(data))
    /\ IF ShouldBroadcast(result')
       THEN /\ handed' = Append(handed, ticks')
            /\ CallBroadcast(result', ticks', "loop")
       ELSE /\ pc' = "sleep"
            /\ UNCHANGED <<handle, clients, conn, msg, msg_id, after, it_left,
                           it_size, cur, dead, got, bc_start, bc_out, handed,
                           recv>>
    /\ UNCHANGED smooth_vars
    /\ UNCHANGED aux_vars

\* the read fails or returns no data: reset prev_db, broadcast zero_msg,
\* break (lines 320-327)
ReadFail ==
    /\ pc = "read"
    /\ prev_db' = Floor
    /\ UNCHANGED <<audio_ring, result, path, band_db, fed, chunk_n, chunk_sq,
                   ticks>>
    /\ CallBroadcast(ZeroMsg, 0, "break")
    /\ UNCHANGED <<handed, smooth_vars>>
    /\ UNCHANGED aux_vars

\* the for statement asks the set iterator for the next client and the set
\* has changed size: RuntimeError leaves broadcast and the read loop; the
\* finally closes the handle, the outer except sleeps 2 s
IterRaise ==
    /\ pc = "bcast"
    /\ Cardinality(clients) # it_size
    /\ bc_out' = "raised"
    /\ it_left' = {}
    /\ cur' = 0
    /\ handle' = "closed"
    /\ pc' = "backoff"
    /\ UNCHANGED <<clients, conn, msg, msg_id, after, it_size, dead, got,
                   bc_start, handed, recv>>
    /\ UNCHANGED <<engine_vars, smooth_vars>>
    /\ UNCHANGED aux_vars

\* the iterator yields the next client and its send begins (lines 200-202)
IterSend ==
    /\ pc = "bcast"
    /\ Cardinality(clients) = it_size
    /\ \E c \in it_left :
          /\ cur' = c
          /\ it_left' = it_left \ {c}
    /\ pc' = "send"
    /\ UNCHANGED <<handle, clients, conn, msg, msg_id, after, it_size, dead,
                   got, bc_start, bc_out, handed, recv>>
    /\ UNCHANGED <<engine_vars, smooth_vars>>
    /\ UNCHANGED aux_vars

\* the iterator is exhausted: clients.difference_update(dead), return
\* (line 205); the caller sleeps, or breaks, closes the handle and reopens
IterEnd ==
    /\ pc = "bcast"
    /\ Cardinality(clients) = it_size
    /\ it_left = {}
    /\ clients' = clients \ dead
    /\ bc_out' = "returned"
    /\ cur' = 0
    /\ pc' = IF after = "break" THEN "open" ELSE "sleep"
    /\ handle' = IF after = "break" THEN "closed" ELSE handle
    /\ UNCHANGED <<conn, msg, msg_id, after, it_left, it_size, dead, got,
                   bc_start, handed, recv>>
    /\ UNCHANGED <<engine_vars, smooth_vars>>
    /\ UNCHANGED aux_vars

\* await client.send(data) completes (line 202)
SendOk ==
    /\ pc = "send"
    /\ conn[cur] = "open"
    /\ got' = got \cup {cur}
    /\ recv' = IF msg_id > 0
               THEN [recv EXCEPT ![cur] = Append(@, msg_id)]
               ELSE recv
    /\ pc' = "bcast"
    /\ UNCHANGED <<handle, clients, conn, msg, msg_id, after, it_left, it_size,
                   cur, dead, bc_start, bc_out, handed>>
    /\ UNCHANGED <<engine_vars, smooth_vars>>
    /\ UNCHANGED aux_vars

\* await client.send(data) raises: dead.add(client) (lines 203-204)
SendRaise ==
    /\ pc = "send"
    /\ conn[cur] \in {"closing", "gone"}
    /\ dead' = dead \cup {cur}
    /\ pc' = "bcast"
    /\ UNCHANGED <<handle, clients, conn, msg, msg_id, after, it_left, it_size,
                   cur, got, bc_start, bc_out, handed, recv>>
    /\ UNCHANGED <<engine_vars, smooth_vars>>
    /\ UNCHANGED aux_vars

\* asyncio.sleep(sleep_time) is over (line 345)
Wake ==
    /\ pc = "sleep"
    /\ pc' = "read"
    /\ BroadcastGone
    /\ UNCHANGED <<handle, clients, conn, handed, recv>>
    /\ UNCHANGED <<engine_vars, smooth_vars>>
    /\ UNCHANGED aux_vars

\* the except handler returning in place of sleeping and retrying
RetryNever ==
    /\ pc = "backoff"
    /\ pc' = "exit"
    /\ BroadcastGone
    /\ UNCHANGED <<handle, clients, conn, handed, recv>>
    /\ UNCHANGED <<engine_vars, smooth_vars>>
    /\ UNCHANGED aux_vars

\* asyncio.sleep(2) is over (line 351)
Retry ==
    /\ pc = "backoff"
    /\ pc' = "open"
    /\ BroadcastGone
    /\ UNCHANGED <<handle, clients, conn, handed, recv>>
    /\ UNCHANGED <<engine_vars, smooth_vars>>
    /\ UNCHANGED aux_vars

\* websocket_handler starts for a new connection: clients.add (line 356).
\* Connections are numbered in order of arrival. During an iteration of
\* broadcast the new element lands before or after the iterator's position
\* in the hash table.
Connect(c) ==
    /\ AtAwait
    /\ conn[c] = "fresh"
    /\ \A d \in Conns : d < c => conn[d] # "fresh"
    /\ conn' = [conn EXCEPT ![c] = "open"]
    /\ clients' = clients \cup {c}
    /\ \/ it_left' = it_left
       \/ pc = "send" /\ it_left' = it_left \cup {c}
    /\ UNCHANGED <<pc, handle, msg, msg_id, after, it_size, cur, dead, got,
                   bc_start, bc_out, handed, recv>>
    /\ UNCHANGED <<engine_vars, smooth_vars>>
    /\ UNCHANGED aux_vars

\* the peer closes or the connection is lost; the handler has not run yet
Drop(c) ==
    /\ AtAwait
    /\ conn[c] = "open"
    /\ conn' = [conn EXCEPT ![c] = "closing"]
    /\ UNCHANGED <<pc, handle, clients, msg, msg_id, after, it_left, it_size,
                   cur, dead, got, bc_start, bc_out, handed, recv>>
    /\ UNCHANGED <<engine_vars, smooth_vars>>
    /\ UNCHANGED aux_vars

\* websocket_handler leaves its loop: clients.discard (lines 363-364)
HandlerExit(c) ==
    /\ AtAwait
    /\ conn[c] = "closing"
    /\ conn' = [conn EXCEPT ![c] = "gone"]
    /\ clients' = clients \ {c}
    /\ it_left' = it_left \ {c}
    /\ recv' = [recv EXCEPT ![c] = <<>>]
    /\ UNCHANGED <<pc, handle, msg, msg_id, after, it_size, cur, dead, got,
                   bc_start, bc_out, handed>>
    /\ UNCHANGED <<engine_vars, smooth_vars>>
    /\ UNCHANGED aux_vars

Init == EngineStart /\ SmoothIdle /\ LoopIdle /\ AuxIdle

Next ==
    \/ OpenOk
    \/ OpenFail
    \/ ReadOk
    \/ ReadFail
    \/ IterRaise
    \/ IterSend
    \/ IterEnd
    \/ SendOk
    \/ SendRaise
    \/ Wake
    \/ Retry
    \/ \E c \in Conns : Connect(c)
    \/ \E c \in Conns : Drop(c)
    \/ \E c \in Conns : HandlerExit(c)

Spec == Init /\ [][Next]_vars

\* ------------------------------------------------------------------------
\* Properties of the ingestion loop and the fan-out (Spec)
\* ------------------------------------------------------------------------
\* the fields of the frame handed to broadcast, as the consumer splits them
MsgFields == Split(msg)

\* C7: every frame handed to the transport (silence frame, FFT-path frame,
\* read-failure frame) is the NUM_BANDS smoothed levels, each rounded to one
\* decimal and parseable as a floating-point number, joined by ';' with no
\* leading or trailing delimiter.
C7_FrameEncoding ==
    pc = "bcast" =>
        LET fields == MsgFields
        IN  /\ Len(fields) = NUM_BANDS
            /\ \A i \in 1..Len(fields) :
                  /\ IsFloatText(fields[i])
                  /\ ParseTenths(fields[i]) = RoundDiv(prev_db[i], 10)
            /\ msg[1] # ";"
            /\ msg[Len(msg)] # ";"

\* C7 witness: an FFT-path frame in which a level above the floor was
\* rounded (it is no multiple of 0.1 dB) has been sent to a client.
C7_Witness ==
    /\ pc = "bcast"
    /\ got # {}
    /\ path = "fft"
    /\ msg_id = ticks
    /\ \E i \in 1..NUM_BANDS :
          /\ prev_db[i] > NOISE_FLOOR
          /\ prev_db[i] % 10 # 0
          /\ ParseTenths(MsgFields[i]) = RoundDiv(prev_db[i], 10)

\* a sequence of ticks is strictly increasing
Increasing(ids) == \A i, j \in 1..Len(ids) : i < j => ids[i] < ids[j]

\* C8: every successfully read chunk yields exactly one broadcast frame and
\* frames are handed to the transport in the order their chunks were read:
\* the frame of chunk k is broadcast before chunk k + 1 is read, and no
\* frame is broadcast twice or kept for later.
C8_OneFramePerChunkInOrder ==
    /\ handed = [i \in 1..ticks |-> i]
    /\ \A c \in Conns : Increasing(recv[c])
    /\ (pc \in {"bcast", "send"} /\ msg_id > 0) =>
          /\ msg_id = ticks
          /\ msg = result

\* C8 witness: two chunks were read and a client accepted both frames, in
\* order.
C8_Witness ==
    /\ ticks = 2
    /\ handed = <<1, 2>>
    /\ \E c \in Conns : recv[c] = <<1, 2>>

\* C9: a consumer that is slow to accept a frame stalls only its own send:
\* while its send is pending, no other consumer that was connected when the
\* broadcast began is still waiting for the send of that frame to begin
\* (nor is the next read held back).
C9_SlowConsumerIsolated ==
    pc = "send" => it_left \cap bc_start \cap clients = {}

\* C10: a consumer whose send fails during a broadcast is skipped: the
\* broadcast does not raise, every other consumer present in the client set
\* receives the frame in that broadcast, and the failed consumer is out of
\* the client set when the broadcast ends.
C10_FailedConsumerSkipped ==
    (dead # {} /\ bc_out \in {"returned", "raised"}) =>
        /\ bc_out = "returned"
        /\ \A c \in (bc_start \cap clients) \ dead : c \in got
        /\ dead \cap clients = {}

\* C11: a read that returns fewer than HOP_SIZE frames is treated like an
\* end-of-stream read: the partial chunk is not analysed (every chunk the
\* loop hands to analyze_pcm has HOP_SIZE samples) and the loop leaves the
\* read loop.
C11_ShortReadIsEndOfStream ==
    path # "none" => chunk_n = HOP_SIZE

\* C12: every per-tick failure degrades to a floor-valued frame: while the
\* loop is out of its read loop after a failure (backing off before the next
\* open), the smoothing state is at the floor and the frame last handed to
\* the consumers is the all-floor frame.
C12_OutageShowsFloor ==
    pc = "backoff" =>
        /\ prev_db = Floor
        /\ msg # <<>> => msg = ZeroMsg

\* ------------------------------------------------------------------------
\* The ingestion loop under fairness (SpecLive)
\* ------------------------------------------------------------------------
\* the consumers followed in the liveness check
LiveConns == {1}

\* a step of the ingestion task
LoopStep ==
    \/ OpenOk
    \/ OpenFail
    \/ ReadOk
    \/ ReadFail
    \/ IterRaise
    \/ IterSend
    \/ IterEnd
    \/ SendOk
    \/ SendRaise
    \/ Wake
    \/ Retry

NextLive ==
    \/ LoopStep
    \/ \E c \in LiveConns : Connect(c)
    \/ \E c \in LiveConns : Drop(c)
    \/ \E c \in LiveConns : HandlerExit(c)

\* the event loop resumes the ingestion task whenever its await is over: the
\* executor read returns, a send completes or raises, a sleep ends.  The
\* source being available again and staying available: an open and a read
\* that can succeed again and again eventually succeed.
Fairness ==
    /\ WF_vars(LoopStep)
    /\ SF_vars(OpenOk)
    /\ SF_vars(ReadOk)

SpecLive == Init /\ [][NextLive]_vars /\ Fairness

FFT_POINTS == 4096

\* len(np.fft.rfftfreq(FFT_SIZE)) = FFT_SIZE / 2 + 1
FreqBins == FFT_POINTS \div 2 + 1

\* values of BAND_MODE and SAMPLE_RATE the environment may hold
Modes == {"half-octave", "third-octave", "octave", ""}

Rates == {22050, 32000, 44100, 48000}

\* generate_band_centers with the centre frequencies of the program, in
\* half Hz (31.5 Hz is 63)
generate_band_centers_hz(mode) ==
    IF mode = "third-octave"
    THEN <<40, 50, 63, 80, 100, 126, 160, 200, 250, 320,
           400, 500, 630, 800, 1000, 1260, 1600, 2000, 2500, 3200,
           4000, 5000, 6300, 8000, 10000, 12600, 16000, 20000, 25000, 32000,
           40000>>
    ELSE <<40, 56, 80, 114, 160, 226, 320, 452, 640, 906,
           1280, 1788, 2500, 3536, 5000, 7072, 10000, 14142, 20000>>

\* edge_ratio (lines 95-98) as a fraction EdgeNum / EdgeDen: 2^(1/6) =
\* 1.12246204830..., 2^(1/4) = 1.18920711500..., cut after eight decimals;
\* EdgeNum + 1 is the ratio rounded up
EdgeDen == 100000000

EdgeNum(mode) == IF mode = "third-octave" THEN 112246204 ELSE 118920711

\* the product a * b of two naturals below 2^30, as three digits
\* <<high, middle, low>> in base 2^15 (the high digit is not reduced)
Wide(a, b) ==
    LET B == 32768
        p0 == (a % B) * (b % B)
        p1 == (a \div B) * (b % B) + (a % B) * (b \div B) + p0 \div B
        p2 == (a \div B) * (b \div B) + p1 \div B
    IN  <<p2, p1 % B, p0 % B>>

WideGeq(x, y) ==
    \/ x[1] > y[1]
    \/ x[1] = y[1] /\ x[2] > y[2]
    \/ x[1] = y[1] /\ x[2] = y[2] /\ x[3] >= y[3]

\* freq_bins[k] >= c2 / 2 * (q / p), with freq_bins[k] = k * rate / FFT_SIZE
BinAtLeast(k, rate, c2, p, q) ==
    WideGeq(Wide(2 * k * rate, p), Wide(c2 * FFT_POINTS, q))

\* np.searchsorted(freq_bins, c2 / 2 * (q / p)): the binary search for the
\* first bin in lo .. hi - 1 at or above the frequency, hi when there is none
RECURSIVE SearchSorted(_, _, _, _, _, _)
SearchSorted(rate, c2, p, q, lo, hi) ==
    IF lo >= hi THEN lo
    ELSE LET mid == (lo + hi) \div 2
         IN  IF BinAtLeast(mid, rate, c2, p, q)
             THEN SearchSorted(rate, c2, p, q, lo, mid)
             ELSE SearchSorted(rate, c2, p, q, mid + 1, hi)

\* one turn of the for loop of compute_band_bins (lines 100-106) for the
\* centre c2, with the edge ratio num / EdgeDen
BandEdges(mode, rate, c2, num) ==
    LET lo_bin == SearchSorted(rate, c2, num, EdgeDen, 0, FreqBins)
        hi_bin == SearchSorted(rate, c2, EdgeDen, num, 0, FreqBins)
    IN  <<lo_bin, Max(hi_bin, lo_bin + 1)>>

InitBands ==
    /\ EngineStart
    /\ SmoothIdle
    /\ LoopIdle
    /\ LevelIdle
    /\ GainIdle
    /\ DispOff
    /\ MetaOff
    /\ \E mode \in Modes, rate \in Rates :
          start = [cfg_mode |-> mode, cfg_rate |-> rate, bt_pc |-> "centers",
                   bt_centers |-> <<>>, bt_edges |-> <<>>]

\* BAND_CENTERS = generate_band_centers(BAND_MODE) (line 68)
LoadCenters ==
    /\ bt_pc = "centers"
    /\ start' = [start EXCEPT !.bt_centers = generate_band_centers_hz(cfg_mode),
                              !.bt_pc = "bins"]
    /\ UNCHANGED <<engine_vars, smooth_vars, loop_vars, level_vars, gain_vars,
                   disp_vars, meta_vars>>

\* BAND_BINS = compute_band_bins() (line 110): the next centre
BinStep ==
    /\ bt_pc = "bins"
    /\ Len(bt_edges) < Len(bt_centers)
    /\ start' = [start EXCEPT !.bt_edges =
         Append(bt_edges,
                BandEdges(cfg_mode, cfg_rate, bt_centers[Len(bt_edges) + 1],
                          EdgeNum(cfg_mode)))]
    /\ UNCHANGED <<engine_vars, smooth_vars, loop_vars, level_vars, gain_vars,
                   disp_vars, meta_vars>>

\* the import is complete: main() starts the server and the ingestion loop
BinsDone ==
    /\ bt_pc = "bins"
    /\ Len(bt_edges) = Len(bt_centers)
    /\ start' = [start EXCEPT !.bt_pc = "ready"]
    /\ UNCHANGED <<engine_vars, smooth_vars, loop_vars, level_vars, gain_vars,
                   disp_vars, meta_vars>>

NextBands == LoadCenters \/ BinStep \/ BinsDone

SpecBands == InitBands /\ [][NextBands]_vars

\* the bins are those of the exact edge ratio: the ratio rounded up gives
\* the same bins as the ratio cut off
EdgesExact ==
    \A i \in 1..Len(bt_edges) :
        bt_edges[i] =
            BandEdges(cfg_mode, cfg_rate, bt_centers[i], EdgeNum(cfg_mode) + 1)

\* C14: with a malformed configuration (here an unrecognised band-spacing
\* mode) the engine fails at start-up: it never gets ready to broadcast, and
\* does not fall back to another configuration.
C14_BadConfigRefused ==
    bt_pc = "ready" => cfg_mode \in {"half-octave", "third-octave"}

\* C17: the band table has one (lo, hi) pair per band centre and every pair
\* satisfies 0 <= lo < hi <= FFT_SIZE/2 + 1, for every configured sample
\* rate and both band-spacing modes, including centres with an edge at or
\* above the Nyquist frequency.
C17_BinsInRange ==
    /\ bt_pc = "ready" => Len(bt_edges) = Len(bt_centers)
    /\ \A i \in 1..Len(bt_edges) :
          /\ 0 <= bt_edges[i][1]
          /\ bt_edges[i][1] < bt_edges[i][2]
          /\ bt_edges[i][2] <= FFT_POINTS \div 2 + 1

\* ------------------------------------------------------------------------
\* One window converted to band levels with any band table (SpecLevels)
\* ------------------------------------------------------------------------
\* how far beyond the spectrum length the bins of a band table may lie
MaxOver == 1

\* the <<lo, hi>> pairs compute_band_bins can produce (lo < hi), for a
\* spectrum of any length up to MaxOver bins longer than the engine's
BinPairs ==
    {pr \in (0..(SpecLen + MaxOver - 1)) \X (1..(SpecLen + MaxOver)) :
        pr[1] < pr[2]}

InitLevels ==
    /\ EngineStart
    /\ SmoothIdle
    /\ LoopIdle
    /\ BandIdle
    /\ GainIdle
    /\ DispOff
    /\ MetaOff
    /\ \E ring \in [1..FFT_SIZE -> Amps], bins \in [1..NUM_BANDS -> BinPairs] :
          conv = [lv_pc |-> "in", lv_ring |-> ring, lv_bins |-> bins,
                  lv_power |-> <<>>, lv_db |-> <<>>]

\* lines 144-165: window, FFT, band power summation
SumBands ==
    /\ lv_pc = "in"
    /\ conv' = [conv EXCEPT !.lv_power = BandPowerOf(Spectrum(lv_ring), lv_bins),
                            !.lv_pc = "power"]
    /\ UNCHANGED <<engine_vars, smooth_vars, loop_vars, band_vars, gain_vars,
                   disp_vars, meta_vars>>

\* lines 167-183: normalisation, conversion to dB, clamp
ToDb ==
    /\ lv_pc = "power"
    /\ conv' = [conv EXCEPT !.lv_db = LevelsOf(lv_power), !.lv_pc = "out"]
    /\ UNCHANGED <<engine_vars, smooth_vars, loop_vars, band_vars, gain_vars,
                   disp_vars, meta_vars>>

NextLevels == SumBands \/ ToDb

SpecLevels == InitLevels /\ [][NextLevels]_vars

\* C18: a band whose bin range lies entirely outside the spectrum, or whose
\* summed power is zero, gets the noise-floor level, and every level is a
\* finite value in NOISE_FLOOR .. 0 dB: no edge case (zero power, no bins,
\* bin index out of range) yields anything else.
C18_EdgeCasesAtFloor ==
    lv_pc = "out" =>
        /\ Len(lv_db) = Len(lv_bins)
        /\ \A b \in 1..Len(lv_db) :
              /\ lv_db[b] >= NOISE_FLOOR
              /\ lv_db[b] <= 0
              /\ (lv_bins[b][1] >= SpecLen \/ lv_power[b] = 0)
                    => lv_db[b] = NOISE_FLOOR

\* C18 witness: a window with power in one band, the other band lying
\* entirely outside the spectrum and reported at the floor.
C18_Witness ==
    /\ lv_pc = "out"
    /\ \E b, c \in 1..Len(lv_db) :
          /\ lv_bins[b][1] >= SpecLen
          /\ lv_bins[b][2] > SpecLen
          /\ lv_db[b] = NOISE_FLOOR
          /\ lv_power[c] > 0
          /\ lv_db[c] > NOISE_FLOOR

\* ------------------------------------------------------------------------
\* Two engines fed the same chunks at two gains (SpecGain)
\* ------------------------------------------------------------------------
\* constant gains applied to the chunks
Gains == {1, 2, 10}

\* amplitude of the sine at gain 1, in half LSB (20 LSB)
SineAmp == 40

\* ticks a sine is fed for
SineTicks == 10

Scale(chunk, g) == [i \in 1..Len(chunk) |-> g * chunk[i]]

\* the chunk of tick t + 1 of a sine with a period of four samples:
\* sample j of the stream is SineAmp * sin(j * pi / 2)
SineChunk(t) == [i \in 1..HOP_SIZE |-> SineAmp * SinQ(t * HOP_SIZE + i - 1)]

\* the chunks of HOP_SIZE samples over Amps above the silence threshold
AnyChunks == {c \in [1..HOP_SIZE -> Amps] : ~IsSilent(c)}

\* analyze_pcm (lines 120-192) on the state st of the second engine
AnalyzeOf(st, new_samples) ==
    IF IsSilent(new_samples)
    THEN [prev_db |-> Floor, audio_ring |-> Zeros,
          result |-> FormatFrame(Floor)]
    ELSE LET ring == UpdateRing(st.audio_ring, new_samples)
             raw == RawLevels(ring)
             smoothed == [b \in 1..NUM_BANDS |-> Smooth(st.prev_db[b], raw[b])]
         IN  [prev_db |-> smoothed, audio_ring |-> ring,
              result |-> FormatFrame(smoothed)]

InitGain ==
    /\ EngineStart
    /\ SmoothIdle
    /\ LoopIdle
    /\ BandIdle
    /\ LevelIdle
    /\ DispOff
    /\ MetaOff
    /\ \E src \in {"sine", "any"}, g1, g2 \in Gains :
          /\ g1 < g2
          /\ pair = [g_src |-> src, gain1 |-> g1, gain2 |-> g2,
                     twin |-> TwinStart]

\* one tick: both engines analyse the chunk, each at its gain
GainTick ==
    /\ \/ g_src = "sine" /\ ticks < SineTicks
       \/ g_src = "any" /\ ticks < MaxTicks
    /\ \E chunk \in (IF g_src = "sine" THEN {SineChunk(ticks)} ELSE AnyChunks) :
          /\ analyze_pcm(Scale(chunk, gain1))
          /\ pair' = [pair EXCEPT !.twin = AnalyzeOf(twin, Scale(chunk, gain2))]
    /\ UNCHANGED <<smooth_vars, loop_vars, band_vars, level_vars, disp_vars,
                   meta_vars>>

NextGain == GainTick

SpecGain == InitGain /\ [][NextGain]_vars

\* the largest field of a frame, in tenths of a dB
RECURSIVE MaxOf(_)
MaxOf(s) == IF Len(s) = 1 THEN s[1] ELSE Max(s[1], MaxOf(Tail(s)))

PeakOf(frame) ==
    LET fields == Split(frame)
    IN  MaxOf([i \in 1..Len(fields) |-> ParseTenths(fields[i])])

\* C19: for two sines of the same frequency with amplitudes a1 < a2, both
\* well above the silence threshold, each fed for at least 10 ticks from a
\* freshly reset engine, the peak band level of the frame for a2 is
\* strictly greater than the peak band level of the frame for a1.
C19_LouderSineHigherPeak ==
    (g_src = "sine" /\ ticks >= 10) => PeakOf(twin.result) > PeakOf(result)

MaxMsgs == 2

\* most fields of a received message
MaxFields == 3

\* the fields a message is made of; float() accepts the first three
FbFields == {"-72.0", "-30.0", "nan", ""}

\* lines 714-718: float(values[i]), NaN and ValueError give the floor
FieldLevel(f) ==
    CASE f = "-72.0" -> NOISE_FLOOR
      [] f = "-30.0" -> -3000
      [] OTHER -> NOISE_FLOOR

not_disp ==
    <<engine_vars, smooth_vars, loop_vars, band_vars, level_vars, gain_vars,
      meta_vars>>

\* async for message in ws: values = message.split(";") and the call of
\* resize_bands(len(values)), lines 710-712
FbReceive ==
    /\ rd_pc = "wait"
    /\ fb_msgs < MaxMsgs
    /\ \E n \in 1..MaxFields, f \in FbFields :
          disp' = [disp EXCEPT !.rd_vals = [i \in 1..n |-> f],
                               !.rs_before = Structs,
                               !.fb_msgs = fb_msgs + 1,
                               !.rd_pc = "resize"]
    /\ UNCHANGED not_disp

\* lines 64-65: if n == NUM_BANDS: return
ResizeNoop ==
    /\ rd_pc = "resize"
    /\ Len(rd_vals) = fb_num
    /\ disp' = [disp EXCEPT !.rd_pc = "returned"]
    /\ UNCHANGED not_disp

\* line 66: NUM_BANDS = n
ResizeNum ==
    /\ rd_pc = "resize"
    /\ Len(rd_vals) # fb_num
    /\ disp' = [disp EXCEPT !.fb_num = Len(rd_vals), !.rd_pc = "r_bands"]
    /\ UNCHANGED not_disp

\* line 67: bands = np.full(n, NOISE_FLOOR)
ResizeBands ==
    /\ rd_pc = "r_bands"
    /\ disp' = [disp EXCEPT
                   !.bands = NewArray(next_id + 1, Len(rd_vals), NOISE_FLOOR),
                   !.next_id = next_id + 1,
                   !.rd_pc = "r_display"]
    /\ UNCHANGED not_disp

\* line 68: display_bands = np.full(n, NOISE_FLOOR)
ResizeDisplay ==
    /\ rd_pc = "r_display"
    /\ disp' = [disp EXCEPT
                   !.display_bands = NewArray(next_id + 1, Len(rd_vals), NOISE_FLOOR),
                   !.next_id = next_id + 1,
                   !.rd_pc = "r_peak"]
    /\ UNCHANGED not_disp

\* line 69: peak_bands = np.zeros(n)
ResizePeak ==
    /\ rd_pc = "r_peak"
    /\ disp' = [disp EXCEPT
                   !.peak_bands = NewArray(next_id + 1, Len(rd_vals), 0),
                   !.next_id = next_id + 1,
                   !.rd_pc = "r_time"]
    /\ UNCHANGED not_disp

\* resize_bands without line 70: peak_time keeps its old array
ResizePeakTimeKept ==
    /\ rd_pc = "r_time"
    /\ disp' = [disp EXCEPT !.rd_pc = "r_colors"]
    /\ UNCHANGED not_disp

\* line 70: peak_time = np.zeros(n)
ResizePeakTime ==
    /\ rd_pc = "r_time"
    /\ disp' = [disp EXCEPT
                   !.peak_time = NewArray(next_id + 1, Len(rd_vals), 0),
                   !.next_id = next_id + 1,
                   !.rd_pc = "r_colors"]
    /\ UNCHANGED not_disp

\* lines 71-72: precompute_colors() and precompute_fb_colors() build one
\* colour per band of NUM_BANDS (lines 234-242 and 325-333)
ResizeColors ==
    /\ rd_pc = "r_colors"
    /\ disp' = [disp EXCEPT !.colors = fb_num, !.rd_pc = "r_layout"]
    /\ UNCHANGED not_disp

\* line 73: layout = compute_layout(), the bar width is for NUM_BANDS bars
ResizeLayout ==
    /\ rd_pc = "r_layout"
    /\ disp' = [disp EXCEPT !.layout = fb_num, !.rd_pc = "r_bg"]
    /\ UNCHANGED not_disp

\* line 74: _init_spectrum_buffer() drops the spectrum background
ResizeBg ==
    /\ rd_pc = "r_bg"
    /\ disp' = [disp EXCEPT !.bg = "none", !.rd_pc = "returned"]
    /\ UNCHANGED not_disp

\* lines 713-718: for i in range(NUM_BANDS): bands[i] = ...
FbFill ==
    /\ rd_pc = "returned"
    /\ disp' = [disp EXCEPT
                   !.bands.v = [i \in 1..Len(bands.v) |->
                                   IF i <= fb_num THEN FieldLevel(rd_vals[i])
                                   ELSE bands.v[i]],
                   !.rd_pc = "wait"]
    /\ UNCHANGED not_disp

\* lines 719-722: the connection fails, bands[:] = NOISE_FLOOR
FbDisconnect ==
    /\ rd_pc = "wait"
    /\ \E i \in 1..Len(bands.v) : bands.v[i] # NOISE_FLOOR
    /\ disp' = [disp EXCEPT !.bands.v = [i \in 1..Len(bands.v) |-> NOISE_FLOOR]]
    /\ UNCHANGED not_disp

resize_bands ==
    \/ ResizeNoop
    \/ ResizeNum
    \/ ResizeBands
    \/ ResizeDisplay
    \/ ResizePeak
    \/ ResizePeakTime
    \/ ResizeColors
    \/ ResizeLayout
    \/ ResizeBg

spectrum_ws_reader == FbReceive \/ resize_bands \/ FbFill \/ FbDisconnect

\* levels and peaks the arrays hold when resize_bands is called
ArrayLevels == {NOISE_FLOOR, -3000}

ArrayPeaks == {0, 50}

\* the display with any band count and any contents of the four arrays,
\* and no render running
InitResize ==
    /\ EngineStart
    /\ SmoothIdle
    /\ LoopIdle
    /\ BandIdle
    /\ LevelIdle
    /\ GainIdle
    /\ \E n \in 1..MaxFields, b, d \in ArrayLevels, p, t \in ArrayPeaks,
          back \in {"set", "none"} :
          disp = DispWith(n, b, d, p, t, back)
    /\ MetaOff

NextResize == spectrum_ws_reader

SpecResize == InitResize /\ [][NextResize]_vars

AllAre(arr, n, fill) ==
    /\ Len(arr.v) = n
    /\ \A i \in 1..n : arr.v[i] = fill

\* C16: when resize_bands(n) returns, then if n differed from NUM_BANDS,
\* NUM_BANDS is n and bands, display_bands, peak_bands and peak_time have
\* length n, the levels at the noise floor and the peaks at zero; if n was
\* NUM_BANDS, nothing has changed: the arrays are the same objects with the
\* same contents.
C16_ResizeEffect ==
    rd_pc = "returned" =>
        LET n == Len(rd_vals)
        IN  IF n # rs_before.num
            THEN /\ fb_num = n
                 /\ AllAre(bands, n, NOISE_FLOOR)
                 /\ AllAre(display_bands, n, NOISE_FLOOR)
                 /\ AllAre(peak_bands, n, 0)
                 /\ AllAre(peak_time, n, 0)
            ELSE Structs = rs_before

\* C16 witness: a resize to another band count has returned, with arrays
\* that held signal and peaks replaced by fresh ones.
C16_Witness ==
    /\ rd_pc = "returned"
    /\ Len(rd_vals) # rs_before.num
    /\ rs_before.bands.v[1] # NOISE_FLOOR
    /\ rs_before.peak_time.v[1] # 0
    /\ fb_num = Len(rd_vals)
    /\ peak_time.id # rs_before.peak_time.id
    /\ AllAre(peak_time, fb_num, 0)

\* ------------------------------------------------------------------------
\* Framebuffer display: render_spectrum on the worker thread
\* (fb_display.py lines 608-700, started by render_loop, lines 755-817)
\* ------------------------------------------------------------------------
\* renders started
MaxRenders == 2

\* line 85: auto_gain_ref - NOISE_FLOOR at import, in hundredths of a dB;
\* the reference is held at this value
GAIN_RANGE == 3000

\* lines 643-644: the level mapped to 0..1, in percent
Fraction(d) ==
    Min(100, Max(0, ((Max(d, NOISE_FLOOR) - NOISE_FLOOR) * 100) \div GAIN_RANGE))

\* render_loop, lines 771-780: the base frame is rebuilt on the event loop
\* and extract_spectrum_bg() sets the spectrum background again
Rebuild ==
    /\ rn_pc = "idle"
    /\ rd_pc = "wait"
    /\ bg = "none"
    /\ disp' = [disp EXCEPT !.bg = "set"]
    /\ UNCHANGED not_disp

\* render_loop, lines 782-812: with a background present, render_spectrum
\* is handed to the executor while the event loop is free
RenderStart ==
    /\ rn_pc = "idle"
    /\ rd_pc = "wait"
    /\ bg = "set"
    /\ fb_renders < MaxRenders
    /\ disp' = [disp EXCEPT !.rn_pc = "layout", !.rn_seen = {}]
    /\ UNCHANGED not_disp

\* line 616: L = layout
RenderLayout ==
    /\ rn_pc = "layout"
    /\ disp' = [disp EXCEPT !.rn_seen = rn_seen \cup {layout}, !.rn_pc = "bg"]
    /\ UNCHANGED not_disp

\* line 620: buf = spectrum_bg_fb.copy(), AttributeError on None
RenderBg ==
    /\ rn_pc = "bg"
    /\ disp' = [disp EXCEPT !.rn_pc = IF bg = "none" THEN "raised" ELSE "max"]
    /\ UNCHANGED not_disp

\* line 629: np.max(bands)
RenderMax ==
    /\ rn_pc = "max"
    /\ disp' = [disp EXCEPT !.rn_seen = rn_seen \cup {Len(bands.v)},
                            !.rn_pc = "mask"]
    /\ UNCHANGED not_disp

\* line 639: attack_mask = bands > display_bands, ValueError when the
\* shapes differ
RenderMask ==
    /\ rn_pc = "mask"
    /\ disp' = [disp EXCEPT
                   !.rn_seen = rn_seen \cup {Len(bands.v), Len(display_bands.v)},
                   !.rn_pc = IF Len(bands.v) = Len(display_bands.v)
                             THEN "load" ELSE "raised"]
    /\ UNCHANGED not_disp

\* line 641: display_bands += ..., the array is loaded and added to in
\* place; ValueError when the shapes differ
RenderSmoothLoad ==
    /\ rn_pc = "load"
    /\ LET seen == rn_seen \cup {Len(bands.v), Len(display_bands.v)}
           added == [display_bands EXCEPT !.v =
                        [i \in 1..Len(display_bands.v) |->
                            FbSmooth(display_bands.v[i], bands.v[i])]]
       IN  IF Len(bands.v) = Len(display_bands.v)
           THEN disp' = [disp EXCEPT !.rn_seen = seen, !.rn_ref = added,
                                     !.display_bands = added, !.rn_pc = "store"]
           ELSE disp' = [disp EXCEPT !.rn_seen = seen, !.rn_pc = "raised"]
    /\ UNCHANGED not_disp

\* line 641: the loaded array is stored back in the global display_bands;
\* lines 644-645: fractions of display_bands
RenderSmoothStore ==
    /\ rn_pc = "store"
    /\ disp' = [disp EXCEPT !.display_bands = rn_ref,
                            !.rn_seen = rn_seen \cup {Len(rn_ref.v)},
                            !.rn_pc = "peaks"]
    /\ UNCHANGED not_disp

\* lines 648-652: peak hold over fractions, peak_bands and peak_time,
\* ValueError or IndexError when the shapes differ; a held peak has
\* expired or not
RenderPeaks ==
    /\ rn_pc = "peaks"
    /\ LET seen == rn_seen \cup {Len(rn_ref.v), Len(peak_bands.v), Len(peak_time.v)}
       IN  IF Len(rn_ref.v) = Len(peak_bands.v) /\ Len(rn_ref.v) = Len(peak_time.v)
           THEN \E expired \in BOOLEAN :
                   disp' = [disp EXCEPT
                       !.rn_seen = seen,
                       !.peak_bands.v =
                           [i \in 1..Len(peak_bands.v) |->
                               IF Fraction(rn_ref.v[i]) >= peak_bands.v[i]
                               THEN Fraction(rn_ref.v[i])
                               ELSE IF expired THEN 0 ELSE peak_bands.v[i]],
                       !.peak_time.v =
                           [i \in 1..Len(peak_time.v) |->
                               IF Fraction(rn_ref.v[i]) >= peak_bands.v[i]
                               THEN fb_renders + 1
                               ELSE peak_time.v[i]],
                       !.rn_pc = "draw"]
           ELSE disp' = [disp EXCEPT !.rn_seen = seen, !.rn_pc = "raised"]
    /\ UNCHANGED not_disp

\* lines 657-677: for i in range(NUM_BANDS) over fractions, peak_bands and
\* the colour tables, IndexError when one of them is shorter
RenderDraw ==
    /\ rn_pc = "draw"
    /\ LET seen == rn_seen \cup {fb_num, Len(peak_bands.v), colors}
       IN  IF fb_num <= Len(rn_ref.v) /\ fb_num <= Len(peak_bands.v) /\ fb_num <= colors
           THEN disp' = [disp EXCEPT !.rn_seen = seen, !.rn_pc = "idle",
                                     !.fb_renders = fb_renders + 1]
           ELSE disp' = [disp EXCEPT !.rn_seen = seen, !.rn_pc = "raised"]
    /\ UNCHANGED not_disp

render_spectrum ==
    \/ RenderLayout
    \/ RenderBg
    \/ RenderMax
    \/ RenderMask
    \/ RenderSmoothLoad
    \/ RenderSmoothStore
    \/ RenderPeaks
    \/ RenderDraw

render_loop == Rebuild \/ RenderStart

InitDisplay ==
    /\ EngineStart
    /\ SmoothIdle
    /\ LoopIdle
    /\ BandIdle
    /\ LevelIdle
    /\ GainIdle
    /\ DispStart
    /\ MetaOff

NextDisplay == spectrum_ws_reader \/ render_loop \/ render_spectrum

SpecDisplay == InitDisplay /\ [][NextDisplay]_vars

\* C15: when the band count changes on a received frame, NUM_BANDS, bands,
\* display_bands, peak_bands, peak_time, the colour tables and the layout
\* change together as seen by render_spectrum on the worker thread: within
\* one render it never observes structures of different lengths.
C15_RenderSeesOneLength ==
    Cardinality(rn_seen) <= 1

\* ------------------------------------------------------------------------
\* The lowest band under a constant offset, and the extent of the band table
\* ------------------------------------------------------------------------
\* C21: the DC component never reaches the lowest band: a window filled with
\* a large constant offset plus negligible AC content does not raise the
\* lowest band's output more than 20 dB above the noise floor.
C21_DcKeptOutOfLowestBand ==
    (path = "fft" /\ \A i \in 1..FFT_SIZE : audio_ring[i] >= Loud)
        => prev_db[1] <= NOISE_FLOOR + 2000

\* C22: generate_band_centers returns 21 centres for "half-octave" and 31 for
\* "third-octave", the first 20 Hz and the last 20000 Hz in both modes
\* (centres are in half Hz).
C22_CentreCounts ==
    (bt_pc # "centers" /\ cfg_mode \in {"half-octave", "third-octave"}) =>
        /\ Len(bt_centers) = (IF cfg_mode = "half-octave" THEN 21 ELSE 31)
        /\ bt_centers[1] = 2 * 20
        /\ bt_centers[Len(bt_centers)] = 2 * 20000

\* C23: the band table of the default configuration covers the audible
\* range: the first band's low bin is at most 5 and the last band's high bin
\* is at least 0.8 * (FFT_SIZE / 2).
C23_TableCoversAudibleRange ==
    (bt_pc = "ready" /\ cfg_mode = "half-octave" /\ cfg_rate = 44100) =>
        /\ bt_edges[1][1] <= 5
        /\ 10 * bt_edges[Len(bt_edges)][2] >= 8 * (FFT_POINTS \div 2)

\* ------------------------------------------------------------------------
\* Metadata service: _read_mpd_response (metadata-service.py lines 142-152)
\* ------------------------------------------------------------------------
\* most body bytes of a reply before its terminator
MaxBody == 2

not_meta ==
    <<engine_vars, smooth_vars, loop_vars, band_vars, level_vars, gain_vars,
      disp_vars>>

\* no other program is followed
OthersOff ==
    /\ EngineStart
    /\ SmoothIdle
    /\ LoopIdle
    /\ BandIdle
    /\ LevelIdle
    /\ GainIdle
    /\ DispOff

\* pat in chunk, for bytes objects
Contains(chunk, pat) ==
    \E i \in 1..(Len(chunk) - Len(pat) + 1) :
        SubSeq(chunk, i, i + Len(pat) - 1) = pat

MpdOk == <<"O", "K", "\n">>

MpdAck == <<"A", "C", "K">>

\* n body bytes and the end of their line
MpdBody(n) == IF n = 0 THEN <<>> ELSE [i \in 1..n |-> "x"] \o <<"\n">>

\* what the peer sends: a reply ended by OK, an error reply, or part of a
\* reply
MpdReplies ==
    {MpdBody(n) \o MpdOk : n \in 0..MaxBody}
        \cup {MpdAck \o MpdBody(n) : n \in 1..MaxBody}
        \cup {MpdBody(n) : n \in 1..MaxBody}

\* the reply is ended by "OK\n" or contains "ACK"
MpdTerminated(reply) ==
    \/ /\ Len(reply) >= 3
       /\ SubSeq(reply, Len(reply) - 2, Len(reply)) = MpdOk
    \/ Contains(reply, MpdAck)

\* _read_mpd_response(sock) is called; the peer will send reply and then
\* close the connection or leave it open
InitMpd ==
    /\ OthersOff
    /\ \E reply \in MpdReplies, closes \in BOOLEAN :
          meta = [op |-> "mpd", reply |-> reply, closes |-> closes,
                  sent |-> 0, response |-> <<>>, mpd_pc |-> "recv",
                  recv_calls |-> 0]

\* lines 146-151: sock.recv(1024) returns the next bytes of the reply, any
\* number of them; response += chunk; OK or ACK in the chunk ends the loop
MpdRecvData ==
    /\ meta.mpd_pc = "recv"
    /\ \E k \in 1..(Len(meta.reply) - meta.sent) :
          LET chunk == SubSeq(meta.reply, meta.sent + 1, meta.sent + k)
          IN  meta' = [meta EXCEPT
                  !.sent = meta.sent + k,
                  !.response = meta.response \o chunk,
                  !.recv_calls = meta.recv_calls + 1,
                  !.mpd_pc = IF Contains(chunk, MpdOk) \/ Contains(chunk, MpdAck)
                             THEN "returned" ELSE "recv"]
    /\ UNCHANGED not_meta

\* lines 146-148: the peer has closed, recv returns b"" and the loop ends
MpdRecvClosed ==
    /\ meta.mpd_pc = "recv"
    /\ meta.sent = Len(meta.reply)
    /\ meta.closes
    /\ meta' = [meta EXCEPT !.recv_calls = meta.recv_calls + 1,
                            !.mpd_pc = "returned"]
    /\ UNCHANGED not_meta

\* line 146: nothing more arrives on the open connection, recv raises
\* socket.timeout (the timeout set in line 105) and no bytes are returned
MpdRecvTimeout ==
    /\ meta.mpd_pc = "recv"
    /\ meta.sent = Len(meta.reply)
    /\ ~meta.closes
    /\ meta' = [meta EXCEPT !.recv_calls = meta.recv_calls + 1,
                            !.mpd_pc = "raised"]
    /\ UNCHANGED not_meta

NextMpd == MpdRecvData \/ MpdRecvClosed \/ MpdRecvTimeout

SpecMpd == InitMpd /\ [][NextMpd]_vars

\* C24: _read_mpd_response returns, with every byte received, as soon as
\* the peer has sent a reply ended by "OK\n" or containing "ACK", however
\* the reply is split across recv chunks, a terminator split between two
\* chunks included.
C24_ReadReturnsAtTerminator ==
    (meta.sent = Len(meta.reply) /\ MpdTerminated(meta.reply)) =>
        /\ meta.mpd_pc = "returned"
        /\ meta.response = meta.reply

\* ------------------------------------------------------------------------
\* Metadata service: _create_socket_connection (lines 100-116)
\* ------------------------------------------------------------------------
\* calls of _create_socket_connection followed
MaxSocks == 3

\* the module is imported; no socket exists yet
InitSock ==
    /\ OthersOff
    /\ meta = [op |-> "sock", sk_pc |-> "idle", socks |-> <<>>, cur |-> 0,
               ret |-> 0, outcome |-> "none", log_errors |-> TRUE,
               logged |-> 0, sock_calls |-> 0]

\* the call, lines 100-102: sock = None
SockCall ==
    /\ meta.sk_pc = "idle"
    /\ meta.sock_calls < MaxSocks
    /\ \E log \in BOOLEAN :
          meta' = [meta EXCEPT !.sk_pc = "socket", !.cur = 0, !.ret = 0,
                               !.outcome = "none", !.log_errors = log,
                               !.sock_calls = meta.sock_calls + 1]
    /\ UNCHANGED not_meta

\* line 104: socket.socket(...) gives a new open socket
SockCreated ==
    /\ meta.sk_pc = "socket"
    /\ meta' = [meta EXCEPT
                   !.socks = Append(meta.socks,
                                    [state |-> "open", closes |-> 0,
                                     returned |-> FALSE]),
                   !.cur = Len(meta.socks) + 1,
                   !.sk_pc = "connect"]
    /\ UNCHANGED not_meta

\* line 104: socket.socket(...) raises (no descriptor left), sock stays None
SockCreateFails ==
    /\ meta.sk_pc = "socket"
    /\ meta' = [meta EXCEPT !.outcome = "failed", !.sk_pc = "except"]
    /\ UNCHANGED not_meta

\* lines 105-107: settimeout, connect succeeds, return sock
SockConnected ==
    /\ meta.sk_pc = "connect"
    /\ meta' = [meta EXCEPT !.socks[meta.cur].returned = TRUE,
                            !.ret = meta.cur,
                            !.outcome = "connected",
                            !.sk_pc = "idle"]
    /\ UNCHANGED not_meta

\* line 106: connect raises (refused, timed out, unreachable)
SockConnectFails ==
    /\ meta.sk_pc = "connect"
    /\ meta' = [meta EXCEPT !.outcome = "failed", !.sk_pc = "except"]
    /\ UNCHANGED not_meta

\* lines 108-116 without lines 111-115: the socket is left as it is
SockExceptNoClose ==
    /\ meta.sk_pc = "except"
    /\ meta' = [meta EXCEPT
                   !.logged = IF meta.log_errors THEN meta.logged + 1
                              ELSE meta.logged,
                   !.ret = 0,
                   !.sk_pc = "idle"]
    /\ UNCHANGED not_meta

\* lines 108-116: the error is logged if asked for, the socket, if one was
\* created, is closed, and None is returned
SockExcept ==
    /\ meta.sk_pc = "except"
    /\ meta' = [meta EXCEPT
                   !.logged = IF meta.log_errors THEN meta.logged + 1
                              ELSE meta.logged,
                   !.socks = IF meta.cur = 0 THEN meta.socks
                             ELSE [meta.socks EXCEPT
                                      ![meta.cur].state = "closed",
                                      ![meta.cur].closes = @ + 1],
                   !.ret = 0,
                   !.sk_pc = "idle"]
    /\ UNCHANGED not_meta

NextSock ==
    \/ SockCall
    \/ SockCreated
    \/ SockCreateFails
    \/ SockConnected
    \/ SockConnectFails
    \/ SockExcept

SpecSock == InitSock /\ [][NextSock]_vars

\* C25: _create_socket_connection never leaks a socket: after a call whose
\* connect failed, the socket it created has been closed exactly once and
\* None was returned; after a call whose connect succeeded, the socket was
\* returned, is open and was never closed.
C25_NoSocketLeak ==
    (meta.sk_pc = "idle" /\ meta.sock_calls > 0) =>
        /\ meta.outcome = "connected" =>
              /\ meta.ret = meta.cur
              /\ meta.ret # 0
        /\ meta.outcome = "failed" => meta.ret = 0
        /\ \A i \in 1..Len(meta.socks) :
              IF meta.socks[i].returned
              THEN meta.socks[i].state = "open" /\ meta.socks[i].closes = 0
              ELSE meta.socks[i].state = "closed" /\ meta.socks[i].closes = 1

\* C25 witness: one call has failed at connect and its socket is closed,
\* another has succeeded and its socket is open.
C25_Witness ==
    /\ meta.sk_pc = "idle"
    /\ meta.outcome = "connected"
    /\ meta.ret = 2
    /\ meta.socks[2].state = "open"
    /\ meta.socks[1].state = "closed"
    /\ meta.socks[1].closes = 1
    /\ ~meta.socks[1].returned

\* ------------------------------------------------------------------------
\* Metadata service: the artwork caches (lines 87-98, 735-796, 832-912)
\* ------------------------------------------------------------------------
\* _CACHE_MAX_ARTWORK = 500 and _CACHE_MAX_ARTIST = 200, scaled down
CACHE_MAX_ARTWORK == 4

CACHE_MAX_ARTIST == 3

\* distinct albums, stations and artists asked for
MaxAlbums == 3

MaxStations == 1

MaxArtists == 3

\* cache keys f"{artist}|{album}" and f"radio|{station_name}"
AlbumKey(n) == <<"album", n>>

RadioKey(n) == <<"radio", n>>

\* what the external lookup for a key yields: the number of the artwork
\* found, or 0 for the empty string of a lookup that found nothing
Lookup(k) == IF k[2] % 2 = 1 THEN k[2] ELSE 0

\* a dict as the sequence of its items in insertion order
HasKey(cache, k) == \E i \in 1..Len(cache) : cache[i].k = k

ValueOf(cache, k) ==
    LET i == CHOOSE i \in 1..Len(cache) : cache[i].k = k IN cache[i].v

RECURSIVE DelKey(_, _)
\* del cache[k]
DelKey(cache, k) ==
    IF cache = <<>> THEN <<>>
    ELSE IF Head(cache).k = k THEN Tail(cache)
    ELSE <<Head(cache)>> \o DelKey(Tail(cache), k)

RECURSIVE DelKeys(_, _)
\* for k in keys: del cache[k]
DelKeys(cache, keys) ==
    IF keys = <<>> THEN cache
    ELSE DelKeys(DelKey(cache, Head(keys)), Tail(keys))

\* _trim_cache with `>` in place of `>=`
TrimCacheLate(cache, max_size) ==
    IF Len(cache) > max_size
    THEN LET keys == [i \in 1..Len(cache) |-> cache[i].k]
         IN  DelKeys(cache, SubSeq(keys, 1, Len(keys) \div 2))
    ELSE cache

\* _trim_cache(cache, max_size), lines 93-98
TrimCache(cache, max_size) ==
    IF Len(cache) >= max_size
    THEN LET keys == [i \in 1..Len(cache) |-> cache[i].k]
         IN  DelKeys(cache, SubSeq(keys, 1, Len(keys) \div 2))
    ELSE cache

\* the service after __init__ (lines 76-77)
InitCache ==
    /\ OthersOff
    /\ meta = [op |-> "cache", artwork_cache |-> <<>>,
               artist_image_cache |-> <<>>, called |-> "none",
               key |-> <<>>, before |-> <<>>, ret |-> 0, looked |-> FALSE]

\* a fetch through a cache: trim, then the hit test, then the lookup whose
\* result is stored (lines 891-911, 743-794, 834-884)
Fetched(name, field, max_size, k) ==
    LET cache == meta[field]
        trimmed == TrimCache(cache, max_size)
    IN  IF HasKey(trimmed, k)
        THEN meta' = [meta EXCEPT ![field] = trimmed, !.called = name,
                         !.key = k, !.before = cache,
                         !.ret = ValueOf(trimmed, k), !.looked = FALSE]
        ELSE meta' = [meta EXCEPT
                         ![field] = Append(trimmed, [k |-> k, v |-> Lookup(k)]),
                         !.called = name, !.key = k, !.before = cache,
                         !.ret = Lookup(k), !.looked = TRUE]

\* the early return of a fetch with an empty argument
Refused(name, field) ==
    meta' = [meta EXCEPT !.called = name, !.key = <<>>,
                         !.before = meta[field], !.ret = 0, !.looked = FALSE]

\* fetch_album_artwork(artist, album), lines 887-912; n = 0 is an empty
\* artist or album (lines 889-890)
fetch_album_artwork ==
    /\ meta.op = "cache"
    /\ \E n \in 0..MaxAlbums :
          IF n = 0 THEN Refused("album", "artwork_cache")
          ELSE Fetched("album", "artwork_cache", CACHE_MAX_ARTWORK, AlbumKey(n))
    /\ UNCHANGED not_meta

\* fetch_radio_logo(station_name, stream_url), lines 735-796; n = 0 is an
\* empty or overlong station name (lines 741-742)
fetch_radio_logo ==
    /\ meta.op = "cache"
    /\ \E n \in 0..MaxStations :
          IF n = 0 THEN Refused("radio", "artwork_cache")
          ELSE Fetched("radio", "artwork_cache", CACHE_MAX_ARTWORK, RadioKey(n))
    /\ UNCHANGED not_meta

\* fetch_artist_image(artist), lines 832-885; n = 0 is an empty artist: the
\* cache is trimmed and the empty string returned (lines 834-836)
fetch_artist_image ==
    /\ meta.op = "cache"
    /\ \E n \in 0..MaxArtists :
          IF n = 0
          THEN meta' = [meta EXCEPT
                   !.artist_image_cache =
                       TrimCache(meta.artist_image_cache, CACHE_MAX_ARTIST),
                   !.called = "artist", !.key = <<>>,
                   !.before = meta.artist_image_cache,
                   !.ret = 0, !.looked = FALSE]
          ELSE Fetched("artist", "artist_image_cache", CACHE_MAX_ARTIST, <<"artist", n>>)
    /\ UNCHANGED not_meta

NextCache == fetch_album_artwork \/ fetch_radio_logo \/ fetch_artist_image

SpecCache == InitCache /\ [][NextCache]_vars

\* the cache the last call went through, as the call left it
CacheAfter ==
    IF meta.called = "artist" THEN meta.artist_image_cache
    ELSE meta.artwork_cache

MaxOfLast ==
    IF meta.called = "artist" THEN CACHE_MAX_ARTIST ELSE CACHE_MAX_ARTWORK

\* the newest entries of a cache, its oldest half left out
NewestHalf(cache) == SubSeq(cache, Len(cache) \div 2 + 1, Len(cache))

C27_HitNeverEvicts ==
    (/\ meta.called \in {"album", "artist"}
     /\ meta.key # <<>>
     /\ Len(meta.before) = MaxOfLast
     /\ HasKey(meta.before, meta.key)) =>
        /\ ~meta.looked
        /\ meta.ret = ValueOf(meta.before, meta.key)
        /\ CacheAfter = meta.before

\* ------------------------------------------------------------------------
\* Metadata service: download_artwork and _failed_downloads (lines 944-1045)
\* ------------------------------------------------------------------------
\* _CACHE_MAX_FAILED = 200, scaled down
CACHE_MAX_FAILED == 2

\* _FAILED_DOWNLOAD_TTL = 300.0 seconds, in clock steps of 100 s
FAILED_DOWNLOAD_TTL == 3

\* distinct artwork addresses, and the last reading of time.monotonic()
MaxUrls == 4

MaxTime == 4

\* a url that is not a key of _failed_downloads
Absent == -1

\* url in self._failed_downloads
Recorded(failed) == {u \in DOMAIN failed : failed[u] # Absent}

\* the TTL test with no expiry
FreshForever(ts, t) == TRUE

\* now - v < self._FAILED_DOWNLOAD_TTL (lines 951, 958)
Fresh(ts, t) == t - ts < FAILED_DOWNLOAD_TTL

\* the dict comprehension of lines 956-959
KeepFresh(failed, t) ==
    [u \in DOMAIN failed |->
        IF failed[u] # Absent /\ Fresh(failed[u], t) THEN failed[u] ELSE Absent]

\* the service after __init__ (line 80)
InitDownload ==
    /\ OthersOff
    /\ meta = [op |-> "download", failed |-> [u \in 1..MaxUrls |-> Absent],
               now |-> 0, url |-> 0, was |-> Absent, outcome |-> "none"]

\* download_artwork(url), lines 944-1045; url 0 is the empty string; the
\* attempt fails (scheme, address, resolution, timeout, size, empty body,
\* exception) or yields the local path
download_artwork ==
    /\ meta.op = "download"
    /\ \E url \in 0..MaxUrls :
          IF url = 0
          THEN meta' = [meta EXCEPT !.url = 0, !.was = Absent,
                                    !.outcome = "empty"]
          ELSE IF meta.failed[url] # Absent /\ Fresh(meta.failed[url], meta.now)
          THEN meta' = [meta EXCEPT !.url = url, !.was = meta.failed[url],
                                    !.outcome = "blocked"]
          ELSE LET deleted == [meta.failed EXCEPT ![url] = Absent]
                   evicted ==
                       IF Cardinality(Recorded(deleted)) > CACHE_MAX_FAILED
                       THEN KeepFresh(deleted, meta.now) ELSE deleted
               IN  \/ meta' = [meta EXCEPT
                                  !.failed = [evicted EXCEPT ![url] = meta.now],
                                  !.url = url, !.was = meta.failed[url],
                                  !.outcome = "failed"]
                   \/ meta' = [meta EXCEPT
                                  !.failed = evicted,
                                  !.url = url, !.was = meta.failed[url],
                                  !.outcome = "path"]
    /\ UNCHANGED not_meta

\* time.monotonic() moves on between two calls
ClockStep ==
    /\ meta.op = "download"
    /\ meta.now < MaxTime
    /\ meta' = [meta EXCEPT !.now = meta.now + 1, !.url = 0, !.was = Absent,
                            !.outcome = "none"]
    /\ UNCHANGED not_meta

NextDownload == download_artwork \/ ClockStep

SpecDownload == InitDownload /\ [][NextDownload]_vars

\* C28: download_artwork for a URL recorded as failed less than
\* _FAILED_DOWNLOAD_TTL ago returns "" without attempting any resolution or
\* download and keeps the entry; once the TTL has elapsed the old entry is
\* removed and the download is attempted again, so a failure never
\* blacklists a URL for good.
C28_FailedUrlRetriedAfterTtl ==
    (meta.outcome \notin {"none", "empty"} /\ meta.was # Absent) =>
        IF meta.now - meta.was < FAILED_DOWNLOAD_TTL
        THEN /\ meta.outcome = "blocked"
             /\ meta.failed[meta.url] = meta.was
        ELSE /\ meta.outcome \in {"failed", "path"}
             /\ meta.failed[meta.url] # meta.was
             /\ meta.outcome = "failed" => meta.failed[meta.url] = meta.now
             /\ meta.outcome = "path" => meta.failed[meta.url] = Absent

\* C28 witness: a URL whose failure is older than the TTL was downloaded
\* and is no longer recorded.
C28_Witness ==
    /\ meta.outcome = "path"
    /\ meta.was # Absent
    /\ meta.now - meta.was >= FAILED_DOWNLOAD_TTL
    /\ meta.failed[meta.url] = Absent

\* C29: _failed_downloads is bounded: after any download_artwork call its
\* size is at most _CACHE_MAX_FAILED, even when every recorded failure is
\* still within its TTL.
C29_FailedDownloadsBounded ==
    Cardinality(Recorded(meta.failed)) <= CACHE_MAX_FAILED

\* ------------------------------------------------------------------------
\* Metadata service: the main loop of run_async (lines 1111-1219)
\* ------------------------------------------------------------------------
\* _MAIN_LOOP_MAX_ERRORS (line 30)
MAIN_LOOP_MAX_ERRORS == 30

\* iterations of the loop that are followed
MaxIters == 32

\* run_async on entering `while True` (lines 1111-1113); iters counts the
\* iterations ended, last_ok is the number of the last one that ended
\* without an exception, sleeps counts the `await asyncio.sleep(2)` done
InitBreaker ==
    /\ OthersOff
    /\ meta = [op |-> "breaker", pc |-> "try", consecutive_errors |-> 0,
               iters |-> 0, last_ok |-> 0, sleeps |-> 0]

\* the try block with the counter left alone at its end
IterationOkNoReset ==
    /\ meta.op = "breaker" /\ meta.pc = "try" /\ meta.iters < MaxIters
    /\ meta' = [meta EXCEPT !.iters = meta.iters + 1,
                            !.last_ok = meta.iters + 1, !.pc = "sleep"]
    /\ UNCHANGED not_meta

\* the try block runs to its end (lines 1114-1207)
IterationOk ==
    /\ meta.op = "breaker" /\ meta.pc = "try" /\ meta.iters < MaxIters
    /\ meta' = [meta EXCEPT !.consecutive_errors = 0,
                            !.iters = meta.iters + 1,
                            !.last_ok = meta.iters + 1, !.pc = "sleep"]
    /\ UNCHANGED not_meta

\* the try block raises an Exception (lines 1208-1217)
IterationRaises ==
    /\ meta.op = "breaker" /\ meta.pc = "try" /\ meta.iters < MaxIters
    /\ LET n == meta.consecutive_errors + 1
       IN  meta' = [meta EXCEPT
                       !.consecutive_errors = n,
                       !.iters = meta.iters + 1,
                       !.pc = IF n >= MAIN_LOOP_MAX_ERRORS
                              THEN "SystemExit(1)" ELSE "sleep"]
    /\ UNCHANGED not_meta

\* the task is cancelled at one of its awaits: CancelledError is no
\* Exception, passes the except clause of line 1208 and ends run_async
Cancelled ==
    /\ meta.op = "breaker" /\ meta.pc \in {"try", "sleep"}
    /\ meta' = [meta EXCEPT !.pc = "cancelled"]
    /\ UNCHANGED not_meta

\* await asyncio.sleep(2), then the next iteration (lines 1219, 1113)
BreakerSleep ==
    /\ meta.op = "breaker" /\ meta.pc = "sleep"
    /\ meta' = [meta EXCEPT !.pc = "try", !.sleeps = meta.sleeps + 1]
    /\ UNCHANGED not_meta

NextBreaker == IterationOk \/ IterationRaises \/ Cancelled \/ BreakerSleep

SpecBreaker == InitBreaker /\ [][NextBreaker]_vars

\* C30: the main loop is a circuit breaker: it raises SystemExit(1) exactly
\* when _MAIN_LOOP_MAX_ERRORS consecutive iterations have raised; an
\* iteration that completes without error resets the counter to 0, and
\* with fewer consecutive errors the loop goes on polling after its 2 s
\* sleep, one sleep after each iteration.
C30_CircuitBreaker ==
    LET streak == meta.iters - meta.last_ok
    IN  /\ (meta.pc = "SystemExit(1)") <=> (streak = MAIN_LOOP_MAX_ERRORS)
        /\ streak <= MAIN_LOOP_MAX_ERRORS
        /\ meta.consecutive_errors = streak
        /\ meta.pc = "try" => meta.sleeps = meta.iters
        /\ meta.pc = "sleep" =>
              /\ meta.sleeps = meta.iters - 1
              /\ streak < MAIN_LOOP_MAX_ERRORS

\* C30 witness: an iteration completed, then _MAIN_LOOP_MAX_ERRORS in a
\* row raised and the loop left with SystemExit(1).
C30_Witness ==
    /\ meta.pc = "SystemExit(1)"
    /\ meta.last_ok > 0
    /\ meta.consecutive_errors = MAIN_LOOP_MAX_ERRORS

\* ------------------------------------------------------------------------
\* Metadata service: the persistent Snapserver socket (lines 118-140,
\* 441-486, 488-577, 610-653)
\* ------------------------------------------------------------------------
\* requests sent, connections opened and notifications pushed in a run
MaxReqs == 4

MaxConnects == 4

MaxNotes == 1

\* the executor threads: run_async's poll (get_metadata_from_snapserver)
\* and a control command (adjust_volume -> set_client_volume)
SnapThreads == {"poll", "vol"}

\* a thread outside both functions
ThreadIdle == [pc |-> "idle", n |-> 0, opened |-> 0, req |-> 0, got |-> 0]

\* the service after __init__ (lines 81-83); a message is 0 for a
\* notification (no "id") and k > 0 for the reply to the k-th request
\* sent, every reply carrying "id": 1 (lines 447-452)
InitSnap ==
    /\ OthersOff
    /\ meta = [op |-> "snap", lock |-> "free", snap_sock |-> 0,
               snap_buffer |-> <<>>, wire |-> <<>>, pending |-> <<>>,
               th |-> [t \in SnapThreads |-> ThreadIdle],
               reqs |-> 0, conns |-> 0, notes |-> 0,
               ret |-> "none", ret_sock |-> 0, ret_n |-> 0, ret_opened |-> 0]

\* _close_snap_socket (lines 132-140) applied to the record m
CloseSnap(m) ==
    IF m.snap_sock # 0
    THEN [m EXCEPT !.snap_sock = 0, !.snap_buffer = <<>>, !.wire = <<>>,
                   !.pending = <<>>]
    ELSE m

\* leaving `with self._snap_lock` by a return: the lock is released; the
\* poll's result and socket are remembered
Leave(m, t, returned) ==
    IF t = "poll"
    THEN [m EXCEPT !.lock = "free", !.th[t] = ThreadIdle, !.ret = returned,
                   !.ret_sock = m.snap_sock, !.ret_n = m.th[t].n,
                   !.ret_opened = m.th[t].opened]
    ELSE [m EXCEPT !.lock = "free", !.th[t] = ThreadIdle]

\* entering the with block with no regard to the lock
AcquireUnguarded(t) ==
    /\ meta.op = "snap" /\ meta.th[t].pc = "idle"
    /\ meta.reqs + 2 <= MaxReqs /\ meta.conns + 2 <= MaxConnects
    /\ meta' = [meta EXCEPT !.lock = t, !.th[t].pc = "open"]
    /\ UNCHANGED not_meta

\* `with self._snap_lock:` and the stale check (lines 495-501, 612-618):
\* a socket silent for longer than _snap_stale_threshold is closed
Acquire(t) ==
    /\ meta.op = "snap" /\ meta.th[t].pc = "idle" /\ meta.lock = "free"
    /\ meta.reqs + 2 <= MaxReqs /\ meta.conns + 2 <= MaxConnects
    /\ \E stale \in BOOLEAN :
          LET m == IF stale THEN CloseSnap(meta) ELSE meta
          IN  meta' = [m EXCEPT !.lock = t, !.th[t].pc = "open",
                                !.ret = IF t = "poll" THEN "none" ELSE m.ret]
    /\ UNCHANGED not_meta

\* _get_snap_socket (lines 118-130): the socket kept, or a new connection,
\* or None and the early return (lines 503-505, 512-514, 620-622)
GetSnapSocket(t) ==
    /\ meta.op = "snap" /\ meta.th[t].pc = "open"
    /\ IF meta.snap_sock # 0
       THEN meta' = [meta EXCEPT !.th[t].pc = "send"]
       ELSE \/ meta' = [meta EXCEPT !.snap_sock = meta.conns + 1,
                                    !.conns = meta.conns + 1,
                                    !.th[t].opened = meta.th[t].opened + 1,
                                    !.th[t].pc = "send"]
            \/ meta' = Leave(meta, t, "not playing")
    /\ UNCHANGED not_meta

\* send_rpc_request: sock.sendall succeeds (line 454) and the request
\* reaches the server, or raises and None is returned (lines 455-457)
RpcSend(t) ==
    /\ meta.op = "snap" /\ meta.th[t].pc = "send"
    /\ \/ meta' = [meta EXCEPT !.reqs = meta.reqs + 1,
                               !.pending = Append(meta.pending, meta.reqs + 1),
                               !.th[t].req = meta.reqs + 1,
                               !.th[t].n = meta.th[t].n + 1,
                               !.th[t].pc = "wait"]
       \/ meta' = [meta EXCEPT !.th[t].n = meta.th[t].n + 1,
                               !.th[t].req = 0,
                               !.th[t].pc = "none"]
    /\ UNCHANGED not_meta

\* send_rpc_request: one line taken from _snap_buffer (lines 461-473): a
\* message with "id" is returned, a notification discarded
RpcParse(t) ==
    /\ meta.op = "snap" /\ meta.th[t].pc = "wait"
    /\ meta.snap_buffer # <<>>
    /\ LET line == Head(meta.snap_buffer)
       IN  IF line # 0
           THEN meta' = [meta EXCEPT !.snap_buffer = Tail(meta.snap_buffer),
                                     !.th[t].got = line, !.th[t].pc = "got"]
           ELSE meta' = [meta EXCEPT !.snap_buffer = Tail(meta.snap_buffer)]
    /\ UNCHANGED not_meta

\* send_rpc_request: sock.recv with data (lines 477-480)
RpcRecv(t) ==
    /\ meta.op = "snap" /\ meta.th[t].pc = "wait"
    /\ meta.snap_buffer = <<>> /\ meta.wire # <<>>
    /\ meta' = [meta EXCEPT !.snap_buffer = meta.wire, !.wire = <<>>]
    /\ UNCHANGED not_meta

\* send_rpc_request: sock.recv returns b"" or raises socket.timeout or
\* OSError, and None is returned (lines 478-479, 481-486)
RpcRecvNone(t) ==
    /\ meta.op = "snap" /\ meta.th[t].pc = "wait"
    /\ meta.snap_buffer = <<>> /\ meta.wire = <<>>
    /\ meta' = [meta EXCEPT !.th[t].pc = "none"]
    /\ UNCHANGED not_meta

\* get_metadata_from_snapserver: no status from the first request: close
\* and connect again (lines 509-512)
PollRetry ==
    /\ meta.op = "snap" /\ meta.th["poll"].pc = "none" /\ meta.th["poll"].n = 1
    /\ meta' = [CloseSnap(meta) EXCEPT !.th["poll"].pc = "open"]
    /\ UNCHANGED not_meta

\* the second request without the close of line 517
PollGiveUpOpen ==
    /\ meta.op = "snap" /\ meta.th["poll"].pc = "none" /\ meta.th["poll"].n = 2
    /\ meta' = Leave(meta, "poll", "gave up")
    /\ UNCHANGED not_meta

\* get_metadata_from_snapserver: no status from the second request either
\* (lines 516-518)
PollGiveUp ==
    /\ meta.op = "snap" /\ meta.th["poll"].pc = "none" /\ meta.th["poll"].n = 2
    /\ meta' = Leave(CloseSnap(meta), "poll", "gave up")
    /\ UNCHANGED not_meta

\* get_metadata_from_snapserver: the status is read and a dict returned
\* (lines 520-572), or reading it raises (lines 574-577)
PollReturn ==
    /\ meta.op = "snap" /\ meta.th["poll"].pc = "got"
    /\ \/ meta' = Leave(meta, "poll", "status")
       \/ meta' = Leave(CloseSnap(meta), "poll", "not playing")
    /\ UNCHANGED not_meta

\* set_client_volume: a request without response returns False and leaves
\* the socket as it is (lines 626-627, 649-653)
VolNone ==
    /\ meta.op = "snap" /\ meta.th["vol"].pc = "none"
    /\ meta' = Leave(meta, "vol", "False")
    /\ UNCHANGED not_meta

\* set_client_volume: the status names the client and Client.SetVolume is
\* sent (lines 629-649), or it does not (lines 639-641)
VolStatus ==
    /\ meta.op = "snap" /\ meta.th["vol"].pc = "got" /\ meta.th["vol"].n = 1
    /\ \/ meta' = [meta EXCEPT !.th["vol"].pc = "send"]
       \/ meta' = Leave(meta, "vol", "False")
    /\ UNCHANGED not_meta

\* set_client_volume: the response to Client.SetVolume (lines 649-653)
VolReturn ==
    /\ meta.op = "snap" /\ meta.th["vol"].pc = "got" /\ meta.th["vol"].n = 2
    /\ meta' = Leave(meta, "vol", "True")
    /\ UNCHANGED not_meta

\* the Snapserver answers the oldest request of the connection
ServerReply ==
    /\ meta.op = "snap" /\ meta.pending # <<>>
    /\ meta' = [meta EXCEPT !.wire = Append(meta.wire, Head(meta.pending)),
                            !.pending = Tail(meta.pending)]
    /\ UNCHANGED not_meta

\* the Snapserver pushes a notification
ServerNotify ==
    /\ meta.op = "snap" /\ meta.snap_sock # 0 /\ meta.notes < MaxNotes
    /\ meta' = [meta EXCEPT !.wire = Append(meta.wire, 0),
                            !.notes = meta.notes + 1]
    /\ UNCHANGED not_meta

NextSnap ==
    \/ \E t \in SnapThreads :
          Acquire(t) \/ GetSnapSocket(t) \/ RpcSend(t) \/ RpcParse(t)
              \/ RpcRecv(t) \/ RpcRecvNone(t)
    \/ PollRetry \/ PollGiveUp \/ PollReturn
    \/ VolNone \/ VolStatus \/ VolReturn
    \/ ServerReply \/ ServerNotify

SpecSnap == InitSnap /\ [][NextSnap]_vars

\* C31: access to the persistent Snapserver socket is thread-safe: at most
\* one of get_metadata_from_snapserver and set_client_volume is between
\* entering and leaving its work on _snap_sock and _snap_buffer, that one
\* holds _snap_lock, and the lock is free again after every exit.
C31_SnapSocketExclusive ==
    /\ Cardinality({t \in SnapThreads : meta.th[t].pc # "idle"}) <= 1
    /\ \A t \in SnapThreads : (meta.th[t].pc # "idle") <=> (meta.lock = t)
    /\ (\A t \in SnapThreads : meta.th[t].pc = "idle") <=> (meta.lock = "free")

\* C31 witness: set_client_volume waits for its response, holding the lock,
\* after a poll that gave up has released it.
C31_Witness ==
    /\ meta.th["vol"].pc = "wait"
    /\ meta.lock = "vol"
    /\ meta.ret = "gave up"

\* C32: get_metadata_from_snapserver reconnects once before giving up: per
\* call at most two Server.GetStatus requests and at most one connection
\* opened after a failure (two in a call only when the first was opened on
\* entry); after a second failure _snap_sock is None, the buffer is empty
\* and the result is {"playing": False}, so the next call connects afresh.
C32_ReconnectOnce ==
    /\ meta.th["poll"].n <= 2
    /\ meta.th["poll"].opened <= 2
    /\ (meta.th["poll"].pc \in {"send", "wait", "got"}) =>
          /\ meta.snap_sock # 0
          /\ meta.th["poll"].opened <= meta.th["poll"].n + 1
    /\ meta.ret = "gave up" =>
          /\ meta.ret_sock = 0
          /\ meta.ret_n = 2
          /\ meta.ret_opened \in {1, 2}
    /\ meta.snap_sock = 0 => meta.snap_buffer = <<>> /\ meta.wire = <<>>

\* C32 witness: a poll on the kept socket failed twice, opened one new
\* connection in between, and left no socket behind.
C32_Witness ==
    /\ meta.ret = "gave up"
    /\ meta.ret_opened = 1
    /\ meta.ret_sock = 0
    /\ meta.snap_sock = 0
    /\ meta.lock = "free"

\* C34: every message send_rpc_request returns is the reply to the request
\* sent in that same call; a reply to an earlier request that timed out or
\* was abandoned is never returned as the answer to a later request.
C34_ReplyMatchesRequest ==
    \A t \in SnapThreads :
        meta.th[t].pc = "got" => meta.th[t].got = meta.th[t].req

\* ------------------------------------------------------------------------
\* The fan-out against changes of the client set (Spec)
\* ------------------------------------------------------------------------
\* C33: the spectrum broadcast is safe against concurrent changes of the
\* client set: when a consumer connects or disconnects while broadcast is
\* suspended inside a send, broadcast still completes without raising, and
\* the ingestion loop does not take its error path (handle closed, 2 s
\* back-off, reopen) because of it.
C33_BroadcastSurvivesSetChange ==
    /\ bc_out # "raised"
    /\ (pc = "backoff" /\ bc_out # "none") => bc_out = "returned"

\* ------------------------------------------------------------------------
\* The ALSA capture handles of the ingestion loop (visualizer.py lines
\* 208-296, 303-351)
\* ------------------------------------------------------------------------
\* open attempts and reads per handle that are followed
MaxOpens == 4

MaxReads == 3

\* read_loopback_and_broadcast at its first open attempt; opened is the
\* number of snd_pcm_open calls that succeeded (the handles are numbered
\* in that order), live the handles not closed, closes the number of
\* snd_pcm_close calls per handle
InitAlsa ==
    /\ OthersOff
    /\ meta = [op |-> "alsa", pc |-> "open", attempts |-> 0, opened |-> 0,
               live |-> {}, closes |-> [h \in 1..MaxOpens |-> 0],
               reads |-> 0, way |-> "none"]

\* open_alsa_capture: snd_pcm_open fails and RuntimeError is raised before
\* a handle exists (lines 237-243); the outer except sleeps (lines 349-351)
AlsaOpenFails ==
    /\ meta.op = "alsa" /\ meta.pc = "open" /\ meta.attempts < MaxOpens
    /\ meta' = [meta EXCEPT !.attempts = meta.attempts + 1,
                            !.pc = "backoff", !.way = "no handle"]
    /\ UNCHANGED not_meta

\* open_alsa_capture: snd_pcm_open succeeds and snd_pcm_hw_params fails:
\* RuntimeError is raised with the handle open (lines 237-281); the try
\* block with the finally has not been entered (lines 309-312)
AlsaParamsFail ==
    /\ meta.op = "alsa" /\ meta.pc = "open" /\ meta.attempts < MaxOpens
    /\ meta' = [meta EXCEPT !.attempts = meta.attempts + 1,
                            !.opened = meta.opened + 1,
                            !.live = meta.live \cup {meta.opened + 1},
                            !.pc = "backoff", !.way = "params"]
    /\ UNCHANGED not_meta

\* open_alsa_capture returns the handle (lines 237-286)
AlsaOpened ==
    /\ meta.op = "alsa" /\ meta.pc = "open" /\ meta.attempts < MaxOpens
    /\ meta' = [meta EXCEPT !.attempts = meta.attempts + 1,
                            !.opened = meta.opened + 1,
                            !.live = meta.live \cup {meta.opened + 1},
                            !.reads = 0,
                            !.pc = "read", !.way = "none"]
    /\ UNCHANGED not_meta

\* one turn of the read loop ends at its sleep (lines 314-345)
AlsaTurn ==
    /\ meta.op = "alsa" /\ meta.pc = "read" /\ meta.reads < MaxReads
    /\ meta' = [meta EXCEPT !.reads = meta.reads + 1]
    /\ UNCHANGED not_meta

\* the read loop is left by break after a failed read (lines 320-327), by
\* an exception in analysis or broadcast, or by the cancellation of the
\* task at an await; the finally closes the handle (lines 346-347)
AlsaLeave(how) ==
    /\ meta.op = "alsa" /\ meta.pc = "read"
    /\ meta' = [meta EXCEPT
                   !.live = meta.live \ {meta.opened},
                   !.closes[meta.opened] = meta.closes[meta.opened] + 1,
                   !.pc = IF how = "break" THEN "open"
                          ELSE IF how = "raise" THEN "backoff" ELSE "cancelled",
                   !.way = how]
    /\ UNCHANGED not_meta

\* asyncio.sleep(2) of the outer except is over (lines 349-351)
AlsaRetry ==
    /\ meta.op = "alsa" /\ meta.pc = "backoff"
    /\ meta' = [meta EXCEPT !.pc = "open"]
    /\ UNCHANGED not_meta

NextAlsa ==
    \/ AlsaOpenFails \/ AlsaParamsFail \/ AlsaOpened \/ AlsaTurn
    \/ \E how \in {"break", "raise", "cancel"} : AlsaLeave(how)
    \/ AlsaRetry

SpecAlsa == InitAlsa /\ [][NextAlsa]_vars

\* C39: every ALSA capture handle opened by the ingestion loop is closed
\* exactly once before the next open attempt, on every way out of the read
\* loop, so at most one handle is open at any time.
C39_HandleClosedOnce ==
    /\ Cardinality(meta.live) <= 1
    /\ meta.pc \in {"open", "backoff", "cancelled"} => meta.live = {}
    /\ \A h \in 1..MaxOpens :
          /\ meta.closes[h] <= 1
          /\ (h <= meta.opened /\ h \notin meta.live) => meta.closes[h] = 1

\* ------------------------------------------------------------------------
\* Metadata service: what run_async publishes (lines 1047-1059, 1184-1205)
\* ------------------------------------------------------------------------
\* distinct values a metadata field takes
MaxVal == 2

\* _VOLATILE_FIELDS (line 1048), two of the four, and two of the other keys
VOLATILE_FIELDS == {"artwork", "elapsed"}

StableFields == {"playing", "title"}

MetaFields == StableFields \cup VOLATILE_FIELDS

\* a dict as a function of the keys; 0 is a key the dict does not have, so
\* that d[k] is d.get(k)
NoValue == 0

EmptyDict == [k \in MetaFields |-> NoValue]

\* set(d.keys())
Keys(d) == {k \in MetaFields : d[k] # NoValue}

\* the dicts get_metadata_from_snapserver and get_mpd_metadata return:
\* "playing" is always a key (lines 505-577)
Metadatas == {d \in [MetaFields -> 0..MaxVal] : d["playing"] # NoValue}

\* _metadata_changed with no field skipped
MetadataChangedAll(new, old) ==
    IF Keys(old) = {} THEN TRUE
    ELSE \E key \in Keys(new) \cup Keys(old) : new[key] # old[key]

\* _metadata_changed(new, old), lines 1050-1059
MetadataChanged(new, old) ==
    IF Keys(old) = {} THEN TRUE
    ELSE \E key \in Keys(new) \cup Keys(old) :
            /\ key \notin VOLATILE_FIELDS
            /\ new[key] # old[key]

\* the service before the first poll: current_metadata = {} (line 75)
InitPublish ==
    /\ OthersOff
    /\ meta = [op |-> "publish", current_metadata |-> EmptyDict,
               previous |-> EmptyDict, metadata |-> EmptyDict,
               wrote |-> "none", sent |-> EmptyDict]

\* one iteration of run_async from "Check for changes and broadcast" on
\* (lines 1184-1205) with the metadata it has gathered
PublishStep ==
    /\ meta.op = "publish"
    /\ \E metadata \in Metadatas :
          IF MetadataChanged(metadata, meta.current_metadata)
          THEN meta' = [meta EXCEPT !.previous = meta.current_metadata,
                                    !.metadata = metadata,
                                    !.current_metadata = metadata,
                                    !.wrote = "write_metadata",
                                    !.sent = metadata]
          ELSE IF \E f \in VOLATILE_FIELDS :
                      metadata[f] # meta.current_metadata[f]
          THEN meta' = [meta EXCEPT !.previous = meta.current_metadata,
                                    !.metadata = metadata,
                                    !.current_metadata = metadata,
                                    !.wrote = "_write_metadata_quiet",
                                    !.sent = metadata]
          ELSE meta' = [meta EXCEPT !.previous = meta.current_metadata,
                                    !.metadata = metadata,
                                    !.wrote = "nothing",
                                    !.sent = EmptyDict]
    /\ UNCHANGED not_meta

NextPublish == PublishStep

SpecPublish == InitPublish /\ [][NextPublish]_vars

\* the part of a dict under a set of keys
Under(d, ks) == [k \in ks |-> d[k]]

\* C37: run_async publishes metadata exactly when something changed: a
\* non-volatile field differing from current_metadata, or no previous
\* metadata, stores, writes and broadcasts the new metadata; only volatile
\* fields differing stores, writes quietly and broadcasts; nothing
\* differing neither writes nor broadcasts; and _metadata_changed reports
\* no change for two metadata dicts that differ in volatile fields only.
C37_PublishesExactlyChanges ==
    meta.wrote # "none" =>
        LET old == meta.previous
            new == meta.metadata
            first == old = EmptyDict
            stable == Under(new, StableFields) # Under(old, StableFields)
            volatile == Under(new, VOLATILE_FIELDS) # Under(old, VOLATILE_FIELDS)
        IN  /\ (first \/ stable) =>
                  /\ meta.wrote = "write_metadata"
                  /\ meta.current_metadata = new /\ meta.sent = new
            /\ (~first /\ ~stable /\ volatile) =>
                  /\ meta.wrote = "_write_metadata_quiet"
                  /\ meta.current_metadata = new /\ meta.sent = new
            /\ (~first /\ ~stable /\ ~volatile) =>
                  /\ meta.wrote = "nothing"
                  /\ meta.current_metadata = old /\ meta.sent = EmptyDict
            /\ (~first /\ ~stable) => ~MetadataChanged(new, old)

\* C37 witness: only a volatile field differed from the previous metadata
\* and the new metadata was stored, written quietly and broadcast.
C37_Witness ==
    /\ meta.wrote = "_write_metadata_quiet"
    /\ meta.previous # EmptyDict
    /\ meta.metadata["artwork"] # meta.previous["artwork"]
    /\ Under(meta.metadata, StableFields) = Under(meta.previous, StableFields)
    /\ meta.current_metadata = meta.metadata

\* ------------------------------------------------------------------------
\* Metadata service: the address checks of download_artwork (lines 961-1009)
\* ------------------------------------------------------------------------
\* addresses getaddrinfo returns for a host
MaxAddrs == 2

\* the schemes of the urls asked for; "" is a url without scheme
Schemes == {"http", "https", "file", "ftp", ""}

\* ip.is_private, is_loopback, is_link_local, is_multicast, is_reserved
\* (lines 981-982)
Restricted == {"private", "loopback", "link_local", "multicast", "reserved"}

AddrKinds == {"public"} \cup Restricted

\* what socket.getaddrinfo yields: a list of addresses
AddrLists == UNION {[1..n -> AddrKinds] : n \in 0..MaxAddrs}

\* the check of the first address only
FirstBlockedHead(addrs, is_snapserver) ==
    IF addrs # <<>> /\ Head(addrs) \in Restricted /\ ~is_snapserver
    THEN Head(addrs) ELSE ""

RECURSIVE FirstBlocked(_, _)
\* the for loop of lines 976-987: the first restricted address, "" if the
\* loop ends without one; for the Snapserver host every address is let by
FirstBlocked(addrs, is_snapserver) ==
    IF addrs = <<>> THEN ""
    ELSE IF Head(addrs) \in Restricted /\ ~is_snapserver THEN Head(addrs)
    ELSE FirstBlocked(Tail(addrs), is_snapserver)

\* download_artwork called with a url that is not blacklisted
InitGuard ==
    /\ OthersOff
    /\ meta = [op |-> "guard", pc |-> "idle", scheme |-> "", host |-> "",
               addrs |-> <<>>, requested |-> FALSE, went_to |-> "",
               recorded |-> FALSE, ret |-> "none"]

\* urlparse and the scheme check (lines 962-966); the host is the
\* configured Snapserver or another one
GuardScheme ==
    /\ meta.op = "guard" /\ meta.pc \in {"idle", "done"}
    /\ \E scheme \in Schemes, host \in {"snapserver", "other"} :
          IF scheme \notin {"http", "https"}
          THEN meta' = [meta EXCEPT !.scheme = scheme, !.host = host,
                                    !.addrs = <<>>, !.requested = FALSE,
                                    !.went_to = "", !.recorded = TRUE,
                                    !.ret = "", !.pc = "done"]
          ELSE meta' = [meta EXCEPT !.scheme = scheme, !.host = host,
                                    !.addrs = <<>>, !.requested = FALSE,
                                    !.went_to = "", !.recorded = FALSE,
                                    !.ret = "none", !.pc = "resolve"]
    /\ UNCHANGED not_meta

\* getaddrinfo raises (lines 993-996)
GuardResolveFails ==
    /\ meta.op = "guard" /\ meta.pc = "resolve"
    /\ meta' = [meta EXCEPT !.recorded = TRUE, !.ret = "", !.pc = "done"]
    /\ UNCHANGED not_meta

\* getaddrinfo returns and the addresses are checked (lines 972-992)
GuardResolved ==
    /\ meta.op = "guard" /\ meta.pc = "resolve"
    /\ \E addrs \in AddrLists :
          IF FirstBlocked(addrs, meta.host = "snapserver") # ""
          THEN meta' = [meta EXCEPT !.addrs = addrs, !.recorded = TRUE,
                                    !.ret = "", !.pc = "done"]
          ELSE meta' = [meta EXCEPT !.addrs = addrs, !.pc = "fetch"]
    /\ UNCHANGED not_meta

\* the artwork file exists already: its path is returned (lines 1003-1005)
GuardLocalFile ==
    /\ meta.op = "guard" /\ meta.pc = "fetch"
    /\ meta' = [meta EXCEPT !.ret = "path", !.pc = "done"]
    /\ UNCHANGED not_meta

\* urllib.request.urlopen(req) (lines 1008-1009): the host is resolved
\* again for the connection (the gap the comment of lines 970-971 names);
\* the download succeeds or fails (lines 1010-1045)
GuardRequest ==
    /\ meta.op = "guard" /\ meta.pc = "fetch"
    /\ \E addr \in AddrKinds, ok \in BOOLEAN :
          meta' = [meta EXCEPT !.requested = TRUE, !.went_to = addr,
                               !.recorded = ~ok,
                               !.ret = IF ok THEN "path" ELSE "",
                               !.pc = "done"]
    /\ UNCHANGED not_meta

NextGuard ==
    \/ GuardScheme \/ GuardResolveFails \/ GuardResolved
    \/ GuardLocalFile \/ GuardRequest

SpecGuard == InitGuard /\ [][NextGuard]_vars

MaxData == 2

\* polls of the metadata endpoint and changes of the band count followed
MaxPolls == 3

MaxResizes == 2

\* band counts a spectrum frame can carry
MaxFrameBands == 2

\* main() has run (lines 830-846): current_metadata is None (0),
\* metadata_version 0, base_frame_version -1, no base frame, no spectrum
\* background; shows is the metadata the cached base frame was drawn from,
\* seen what render_base_frame read on the worker thread, bars the number
\* of bars of the last spectrum drawn
InitFrame ==
    /\ OthersOff
    /\ meta = [op |-> "frame", pc |-> "top", current_metadata |-> 0,
               metadata_version |-> 0, base_frame_version |-> -1,
               shows |-> -1, seen |-> -1, spectrum_bg |-> "none",
               num_bands |-> 1, bars |-> 0, polls |-> 0, resizes |-> 0]

\* lines 780-806: the loop sleeps 0.1 s when a background is missing; the
\* idle skip needs is_playing false; otherwise render_spectrum is handed to
\* the executor
AfterBase(m) ==
    IF m.spectrum_bg = "none"
    THEN {[m EXCEPT !.pc = "sleep"]}
    ELSE IF m.current_metadata = 0
    THEN {[m EXCEPT !.pc = "pace"], [m EXCEPT !.pc = "spectrum"]}
    ELSE {[m EXCEPT !.pc = "spectrum"]}

\* render_loop, lines 765-772 and 780-806: the head of one turn up to its
\* first await
LoopTop ==
    /\ meta.op = "frame" /\ meta.pc = "top"
    /\ IF meta.base_frame_version # meta.metadata_version
       THEN meta' = [meta EXCEPT !.pc = "base"]
       ELSE meta' \in AfterBase(meta)
    /\ UNCHANGED not_meta

\* render_base_frame on the worker thread reads current_metadata (line 443)
BaseRead ==
    /\ meta.op = "frame" /\ meta.pc = "base"
    /\ meta' = [meta EXCEPT !.seen = meta.current_metadata, !.pc = "drawn"]
    /\ UNCHANGED not_meta

\* render_loop resumes with the frame (lines 770-777): extract_spectrum_bg
\* and base_frame_version = metadata_version, then write_full_frame is
\* handed to the executor
BaseDone ==
    /\ meta.op = "frame" /\ meta.pc = "drawn"
    /\ meta' = [meta EXCEPT !.shows = meta.seen,
                            !.spectrum_bg = "set",
                            !.base_frame_version = meta.metadata_version,
                            !.pc = "write"]
    /\ UNCHANGED not_meta

\* write_full_frame is done (lines 776-806)
WriteDone ==
    /\ meta.op = "frame" /\ meta.pc = "write"
    /\ meta' \in AfterBase(meta)
    /\ UNCHANGED not_meta

\* asyncio.sleep(0.1) and continue (lines 781-782), or the sleep that ends
\* a turn (lines 787-789, 801-806)
LoopSleep ==
    /\ meta.op = "frame" /\ meta.pc \in {"sleep", "pace"}
    /\ meta' = [meta EXCEPT !.pc = "top"]
    /\ UNCHANGED not_meta

\* render_spectrum on the worker thread (lines 616-700): line 620 copies
\* spectrum_bg_fb, AttributeError on None; the exception ends render_loop
RenderSpectrum ==
    /\ meta.op = "frame" /\ meta.pc = "spectrum"
    /\ IF meta.spectrum_bg = "none"
       THEN meta' = [meta EXCEPT !.pc = "raised"]
       ELSE meta' = [meta EXCEPT !.bars = meta.num_bands, !.pc = "region"]
    /\ UNCHANGED not_meta

\* write_region_to_fb_fast is done (lines 796-799)
RegionDone ==
    /\ meta.op = "frame" /\ meta.pc = "region"
    /\ meta' = [meta EXCEPT !.pc = "pace"]
    /\ UNCHANGED not_meta

\* metadata_poller, lines 729-746: a poll that returns document d
PollerOk(d) ==
    /\ meta.op = "frame" /\ meta.polls < MaxPolls
    /\ IF d # meta.current_metadata
       THEN meta' = [meta EXCEPT !.current_metadata = d,
                                 !.metadata_version = meta.metadata_version + 1,
                                 !.polls = meta.polls + 1]
       ELSE meta' = [meta EXCEPT !.polls = meta.polls + 1]
    /\ UNCHANGED not_meta

\* metadata_poller, lines 729-746: the request fails or the status is not
\* 200
PollerFails ==
    /\ meta.op = "frame" /\ meta.polls < MaxPolls
    /\ meta' = [meta EXCEPT !.polls = meta.polls + 1]
    /\ UNCHANGED not_meta

metadata_poller == PollerFails \/ \E d \in 1..MaxData : PollerOk(d)

\* spectrum_ws_reader receives a frame of n fields, n # NUM_BANDS (line
\* 711): resize_bands ends in _init_spectrum_buffer (lines 74, 336-343)
FrameResize(n) ==
    /\ meta.op = "frame" /\ meta.resizes < MaxResizes
    /\ n # meta.num_bands
    /\ meta' = [meta EXCEPT !.num_bands = n, !.spectrum_bg = "none",
                            !.resizes = meta.resizes + 1]
    /\ UNCHANGED not_meta

FrameLoop ==
    \/ LoopTop
    \/ BaseRead
    \/ BaseDone
    \/ WriteDone
    \/ LoopSleep
    \/ RenderSpectrum
    \/ RegionDone

NextFrame ==
    \/ FrameLoop
    \/ metadata_poller
    \/ \E n \in 1..MaxFrameBands : FrameResize(n)

SpecFrame == InitFrame /\ [][NextFrame]_vars

\* the render loop and its worker calls are scheduled; nothing obliges the
\* metadata to change or the band count to change
SpecFrameFair == SpecFrame /\ WF_vars(FrameLoop)

\* C35: whenever base_frame_version equals metadata_version the cached base
\* frame was rendered from the current_metadata of that version, so a
\* change committed by metadata_poller while render_base_frame runs on the
\* worker thread is not lost.
C35_BaseFrameOfVersion ==
    meta.base_frame_version = meta.metadata_version =>
        meta.shows = meta.current_metadata

\* C36: after the band count changes at run time the render loop keeps
\* running: render_spectrum is never entered while the spectrum background
\* is None, and while a track is played a spectrum of the new number of
\* bars is eventually drawn without a later metadata change.
C36_RendersAfterResize ==
    /\ [](meta.pc # "raised")
    /\ [](meta.current_metadata # 0 => <>(meta.bars = meta.num_bands))

\* ------------------------------------------------------------------------
\* Framebuffer display: the connections of spectrum_ws_reader
\* (fb_display.py lines 703-722)
\* ------------------------------------------------------------------------
\* connection attempts, frames received and most fields of a frame
MaxDials == 3

MaxFrames == 2

MaxWidth == 2

\* float("inf") is a float that is not NaN (line 715); the value stands for
\* the infinity stored, above every level in hundredths of a dB
INF == 1000000

\* the fields a frame is made of: float() accepts "inf" too
ReaderFields == FbFields \cup {"inf"}

\* lines 714-718: v if not np.isnan(v) else NOISE_FLOOR, and NOISE_FLOOR on
\* ValueError
StoredLevel(f) == IF f = "inf" THEN INF ELSE FieldLevel(f)

ReaderFrames ==
    UNION {[1..n -> ReaderFields] : n \in 1..MaxWidth}

\* the reader before its first connection attempt: bands as the module
\* makes it (line 55); vals is the frame stored last on the connection,
\* last the way the connection before ended, waited whether the 5 s sleep
\* was taken since
InitReader ==
    /\ OthersOff
    /\ meta = [op |-> "reader", pc |-> "connect",
               bands |-> [i \in 1..FB_NUM_BANDS |-> NOISE_FLOOR],
               vals |-> <<>>, last |-> "none", waited |-> FALSE,
               dials |-> 0, frames |-> 0]

\* websockets.connect succeeds (lines 708-709)
ReaderConnect ==
    /\ meta.op = "reader" /\ meta.pc = "connect" /\ meta.dials < MaxDials
    /\ meta' = [meta EXCEPT !.pc = "open", !.dials = meta.dials + 1,
                            !.waited = FALSE]
    /\ UNCHANGED not_meta

\* websockets.connect raises (line 708) and the except of lines 719-722
\* resets the bands and starts the sleep
ReaderConnectFails ==
    /\ meta.op = "reader" /\ meta.pc = "connect" /\ meta.dials < MaxDials
    /\ meta' = [meta EXCEPT
                   !.pc = "backoff", !.dials = meta.dials + 1,
                   !.bands = [i \in 1..Len(meta.bands) |-> NOISE_FLOOR],
                   !.vals = <<>>, !.last = "error", !.waited = FALSE]
    /\ UNCHANGED not_meta

\* one frame (lines 710-718): resize_bands(len(values)) makes new arrays at
\* the floor when the count differs (lines 61-75), then every band takes
\* its field
ReaderMessage(values) ==
    /\ meta.op = "reader" /\ meta.pc = "open" /\ meta.frames < MaxFrames
    /\ meta' = [meta EXCEPT
                   !.bands = [i \in 1..Len(values) |-> StoredLevel(values[i])],
                   !.vals = values, !.frames = meta.frames + 1]
    /\ UNCHANGED not_meta

\* the connection breaks while the reader waits for a frame
\* (ConnectionClosedError out of the async for, line 710): the except of
\* lines 719-722
ReaderFails ==
    /\ meta.op = "reader" /\ meta.pc = "open"
    /\ meta' = [meta EXCEPT
                   !.pc = "backoff",
                   !.bands = [i \in 1..Len(meta.bands) |-> NOISE_FLOOR],
                   !.vals = <<>>, !.last = "error"]
    /\ UNCHANGED not_meta

\* the server closes the connection with a close frame: the async for of
\* line 710 ends without an exception, the async with is left and while
\* True connects again (lines 706-708)
ReaderClosed ==
    /\ meta.op = "reader" /\ meta.pc = "open"
    /\ meta' = [meta EXCEPT !.pc = "connect", !.vals = <<>>,
                            !.last = "closed"]
    /\ UNCHANGED not_meta

\* asyncio.sleep(5) is over (line 722)
ReaderBackoff ==
    /\ meta.op = "reader" /\ meta.pc = "backoff"
    /\ meta' = [meta EXCEPT !.pc = "connect", !.waited = TRUE]
    /\ UNCHANGED not_meta

NextReader ==
    \/ ReaderConnect
    \/ ReaderConnectFails
    \/ \E values \in ReaderFrames : ReaderMessage(values)
    \/ ReaderFails
    \/ ReaderClosed
    \/ ReaderBackoff

SpecReader == InitReader /\ [][NextReader]_vars

\* C40: when the spectrum WebSocket fails or closes, every band level is
\* reset to the noise floor and the reader connects again after its 5 s
\* sleep; in a received frame a field that is NaN or not a float sets its
\* own band to the noise floor and the other bands take their parsed
\* values, and every band level stored is a finite number.
C40_ReaderResetsAndStoresFinite ==
    /\ (meta.pc \in {"connect", "backoff"} /\ meta.last # "none") =>
          /\ \A i \in 1..Len(meta.bands) : meta.bands[i] = NOISE_FLOOR
          /\ meta.pc = "connect" => meta.waited
    /\ meta.vals # <<>> =>
          /\ Len(meta.bands) = Len(meta.vals)
          /\ \A i \in 1..Len(meta.vals) :
                meta.bands[i] = IF meta.vals[i] \in {"nan", ""}
                                THEN NOISE_FLOOR
                                ELSE StoredLevel(meta.vals[i])
    /\ \A i \in 1..Len(meta.bands) : meta.bands[i] < INF

====
